---------------------------- MODULE Spec2Model ----------------------------
(***************************************************************************)
(* A model of the AFLWP email worker: the template cache                   *)
(* (EmailTemplateService), the email dispatcher (EmailService), the        *)
(* per-job routing of EmailWorker.processJob, and the Worker Runtime       *)
(* (EmailWorker.start and shutdown, the signal handlers, the entrypoint).  *)
(*                                                                         *)
(* Texts (error messages, subjects) are sequences of string pieces, so     *)
(* that concatenation is \o and "carries" is membership of a piece.        *)
(* Thrown values are records [name, code, message]; a value that is not an *)
(* Error object has name "value" and its content in the message field.     *)
(***************************************************************************)
EXTENDS Integers, Sequences, FiniteSets, TLC

VARIABLES
    templateCache,  \* emailTemplateService.ts:40, name -> compiled template
    generation,     \* per name, how many compiled templates Handlebars produced
    tplLog,         \* the loadTemplate calls and clearCache calls, in order
    renders,        \* the renderTemplate calls made directly on the service
    now,            \* the wall clock, in milliseconds
    transporter,    \* EmailService.transporter, 0 when null
    created,        \* how many transports nodemailer.createTransport returned
    jobs,           \* the processJob invocations, by job id
    faults,         \* how many failures the environment has injected
    worker,         \* EmailWorker.worker, 0 when undefined, else a consumer id
    redis,          \* EmailWorker.redis, 0 when undefined, else a connection id
    consumers,      \* the BullMQ Worker objects created so far
    connections,    \* the ioredis connections created so far
    handlers,       \* per signal, how many process.on handlers are registered
    shutdowns,      \* the shutdown() invocations, in call order
    process,        \* the Node process: entrypoint position and exit code
    queue           \* the email_notifications queue: produced and waiting jobs,
                    \* and the jobs whose locks the stalled-job check follows

\* The state of the Worker Runtime and of the process around it.
rtVars == <<worker, redis, consumers, connections, handlers, shutdowns,
            process, queue>>

\* The state of the email services and of the job callbacks.
mailVars == <<templateCache, generation, tplLog, renders, now,
              transporter, created, jobs, faults>>

vars == <<templateCache, generation, tplLog, renders, now,
          transporter, created, jobs, faults,
          worker, redis, consumers, connections, handlers, shutdowns,
          process, queue>>

---------------------------------------------------------------------------
(* Bounds of the model.                                                    *)

MaxEvents == 3

\* Calls recorded when only loadTemplate and clearCache are called.
MaxCacheEvents == 5

MaxRenders == 1

MaxTicks == 2

MaxJobs == 2

MaxFaults == 2

\* start() calls made on one EmailWorker object.
MaxStarts == 2

\* Direct calls of setupEventHandlers.
MaxSetups == 2

\* shutdown() invocations, by signal handlers or by direct calls.
MaxShutdowns == 2

\* Jobs ever added to the email_notifications queue.
MaxProduced == 6

\* Jobs followed through stalls and redeliveries.
MaxHeld == 2

---------------------------------------------------------------------------
(* Thrown values and api/v1/errors.ts.                                     *)

NoError == [name |-> "none", code |-> "", message |-> <<>>]

EmailWorkerError(code, message) ==
    [name |-> "EmailWorkerError", code |-> code, message |-> message]

LibraryError(message) == [name |-> "Error", code |-> "", message |-> message]

ThrownValue(content) == [name |-> "value", code |-> "", message |-> content]

instanceofError(e) == e.name \in {"Error", "EmailWorkerError"}

errorMessageOfAny(e) == e.message

\* error instanceof Error ? error.message : 'Unknown error'
errorMessage(e) == IF instanceofError(e) THEN e.message ELSE <<"Unknown error">>

Carries(message, piece) == \E i \in 1..Len(message) : message[i] = piece

CarriesAll(message, pieces) ==
    \E i \in 0..(Len(message) - Len(pieces)) :
        SubSeq(message, i + 1, i + Len(pieces)) = pieces

---------------------------------------------------------------------------
(* The template cache: EmailTemplateService.                               *)

AdminLicenseTemplate == "admin-license-purchase-notification.html"

CustomerLicenseTemplate == "customer-license-purchase-notification.html"

AdminCreditTemplate == "admin-credit-purchase-notification.html"

CustomerCreditTemplate == "customer-credit-purchase-notification.html"

TemplateNames == {AdminLicenseTemplate, CustomerLicenseTemplate,
                  AdminCreditTemplate, CustomerCreditTemplate}

\* The names the direct calls on the service use.
DirectNames == {AdminLicenseTemplate, CustomerLicenseTemplate}

\* A compiled template is an object: the gen-th one compiled for its name.
NoTemplate == [name |-> "", gen |-> 0]

EmptyCache == [n \in TemplateNames |-> NoTemplate]

\* What fs.readFileSync and Handlebars.compile do for one load.
FsOutcomes == {"ok", "readFail", "compileFail"}

ReadError == LibraryError(<<"ENOENT: no such file or directory">>)

CompileError == LibraryError(<<"Parse error">>)

RenderError == LibraryError(<<"Template compilation failed">>)

cacheHasNever(cache, templateName) == FALSE

\* templateCache.has(templateName)
cacheHas(cache, templateName) == cache[templateName] # NoTemplate

\* The catch block of loadTemplate.
loadFailure(templateName, cause) ==
    EmailWorkerError("TEMPLATE_ERROR",
                     <<"Failed to load template ", templateName, ": ">>
                         \o errorMessage(cause))

loadTemplateUnchecked(cache, gen, templateName, fs) ==
    IF fs = "readFail"
    THEN [cache |-> cache, gen |-> gen, ok |-> FALSE,
          template |-> NoTemplate, error |-> loadFailure(templateName, ReadError),
          reads |-> 1, compiles |-> 0]
    ELSE IF fs = "compileFail"
    THEN [cache |-> cache, gen |-> gen, ok |-> FALSE,
          template |-> NoTemplate, error |-> loadFailure(templateName, CompileError),
          reads |-> 1, compiles |-> 1]
    ELSE LET compiledTemplate ==
                 [name |-> templateName, gen |-> gen[templateName] + 1]
         IN  [cache |-> [cache EXCEPT ![templateName] = compiledTemplate],
              gen |-> [gen EXCEPT ![templateName] = @ + 1], ok |-> TRUE,
              template |-> compiledTemplate, error |-> NoError,
              reads |-> 1, compiles |-> 1]

loadTemplateCachesFailure(cache, gen, templateName, fs) ==
    IF cacheHas(cache, templateName)
    THEN [cache |-> cache, gen |-> gen, ok |-> TRUE,
          template |-> cache[templateName], error |-> NoError,
          reads |-> 0, compiles |-> 0]
    ELSE LET compiledTemplate ==
                 [name |-> templateName, gen |-> gen[templateName] + 1]
             stored == [cache |-> [cache EXCEPT ![templateName] = compiledTemplate],
                        gen |-> [gen EXCEPT ![templateName] = @ + 1]]
         IN  IF fs = "readFail"
             THEN [cache |-> cache, gen |-> gen, ok |-> FALSE,
                   template |-> NoTemplate,
                   error |-> loadFailure(templateName, ReadError),
                   reads |-> 1, compiles |-> 0]
             ELSE IF fs = "compileFail"
             THEN [cache |-> stored.cache, gen |-> stored.gen, ok |-> FALSE,
                   template |-> NoTemplate,
                   error |-> loadFailure(templateName, CompileError),
                   reads |-> 1, compiles |-> 1]
             ELSE [cache |-> stored.cache, gen |-> stored.gen, ok |-> TRUE,
                   template |-> compiledTemplate, error |-> NoError,
                   reads |-> 1, compiles |-> 1]

\* loadTemplate as a function of the cache: the cache after the call, the
\* template returned or the error thrown, and the number of readFileSync and
\* Handlebars.compile calls it made.
loadTemplate(cache, gen, templateName, fs) ==
    IF cacheHas(cache, templateName)
    THEN [cache |-> cache, gen |-> gen, ok |-> TRUE,
          template |-> cache[templateName], error |-> NoError,
          reads |-> 0, compiles |-> 0]
    ELSE IF fs = "readFail"
    THEN [cache |-> cache, gen |-> gen, ok |-> FALSE,
          template |-> NoTemplate, error |-> loadFailure(templateName, ReadError),
          reads |-> 1, compiles |-> 0]
    ELSE IF fs = "compileFail"
    THEN [cache |-> cache, gen |-> gen, ok |-> FALSE,
          template |-> NoTemplate, error |-> loadFailure(templateName, CompileError),
          reads |-> 1, compiles |-> 1]
    ELSE LET compiledTemplate ==
                 [name |-> templateName, gen |-> gen[templateName] + 1]
         IN  [cache |-> [cache EXCEPT ![templateName] = compiledTemplate],
              gen |-> [gen EXCEPT ![templateName] = @ + 1], ok |-> TRUE,
              template |-> compiledTemplate, error |-> NoError,
              reads |-> 1, compiles |-> 1]

\* Date.prototype.toISOString keeps the milliseconds: seconds and the
\* millisecond part, and new Date(iso).getTime() reads them back.
toISOString(t) == <<t \div 1000, t % 1000>>

getTime(iso) == iso[1] * 1000 + iso[2]

dataWithTimestampKeep(data, t) ==
    [k \in DOMAIN data \cup {"timestamp"} |->
        IF k \in DOMAIN data THEN data[k] ELSE toISOString(t)]

\* { ...data, timestamp: new Date().toISOString() }
dataWithTimestamp(data, t) ==
    [k \in DOMAIN data \cup {"timestamp"} |->
        IF k = "timestamp" THEN toISOString(t) ELSE data[k]]

renderFailureWrongCode(templateName, cause) ==
    EmailWorkerError("EMAIL_ERROR",
                     <<"Failed to render template ", templateName, ": ">>
                         \o errorMessage(cause))

\* The catch block of renderTemplate.
renderFailure(templateName, cause) ==
    EmailWorkerError("TEMPLATE_ERROR",
                     <<"Failed to render template ", templateName, ": ">>
                         \o errorMessage(cause))

\* renderTemplate after its await of loadTemplate: `loaded` is what the load
\* gave, `rt` what the compiled template does when it is applied.
RenderOutcomes == {"ok", "renderFail"}

renderTemplateFromCache(templateName, data, loaded, t, rt) ==
    IF ~loaded.ok
    THEN [ok |-> FALSE, error |-> renderFailure(templateName, loaded.error),
          template |-> NoTemplate, passed |-> <<>>]
    ELSE IF ~cacheHas(templateCache, templateName)
    THEN [ok |-> FALSE,
          error |-> renderFailure(templateName,
                        LibraryError(<<"template is not a function">>)),
          template |-> NoTemplate, passed |-> <<>>]
    ELSE IF rt = "renderFail"
    THEN [ok |-> FALSE, error |-> renderFailure(templateName, RenderError),
          template |-> templateCache[templateName],
          passed |-> <<dataWithTimestamp(data, t)>>]
    ELSE [ok |-> TRUE, error |-> NoError,
          template |-> templateCache[templateName],
          passed |-> <<dataWithTimestamp(data, t)>>]

renderTemplate(templateName, data, loaded, t, rt) ==
    IF ~loaded.ok
    THEN [ok |-> FALSE, error |-> renderFailure(templateName, loaded.error),
          template |-> NoTemplate, passed |-> <<>>]
    ELSE IF rt = "renderFail"
    THEN [ok |-> FALSE, error |-> renderFailure(templateName, RenderError),
          template |-> loaded.template,
          passed |-> <<dataWithTimestamp(data, t)>>]
    ELSE [ok |-> TRUE, error |-> NoError, template |-> loaded.template,
          passed |-> <<dataWithTimestamp(data, t)>>]

---------------------------------------------------------------------------
(* Direct calls on the template service: loadTemplate, renderTemplate in   *)
(* its two parts around the await, clearCache, and the passing of time.    *)

Epoch == 1000 - 1

\* Caller-supplied data maps; the second carries its own, stale, timestamp.
DataSamples ==
    { [customerName |-> "John Doe"],
      [customerName |-> "John Doe", timestamp |-> toISOString(0)] }

LoadEvent(templateName, r) ==
    [op |-> "load", name |-> templateName, ok |-> r.ok, template |-> r.template,
     error |-> r.error, reads |-> r.reads, compiles |-> r.compiles]

ClearEvent ==
    [op |-> "clear", name |-> "", ok |-> TRUE, template |-> NoTemplate,
     error |-> NoError, reads |-> 0, compiles |-> 0]

\* await EmailTemplateService.loadTemplate(templateName), called directly,
\* as one of at most `bound` recorded calls.
LoadTemplateWithin(templateName, fs, bound) ==
    /\ Len(tplLog) < bound
    /\ fs # "ok" => ~cacheHas(templateCache, templateName)
    /\ LET r == loadTemplate(templateCache, generation, templateName, fs)
       IN  /\ templateCache' = r.cache
           /\ generation' = r.gen
           /\ tplLog' = Append(tplLog, LoadEvent(templateName, r))
    /\ UNCHANGED rtVars
    /\ UNCHANGED <<renders, now, transporter, created, jobs, faults>>

LoadTemplateCall(templateName, fs) ==
    LoadTemplateWithin(templateName, fs, MaxEvents)

\* renderTemplate up to its await: loadTemplate has run to its end.
RenderBegin(templateName, data, fs) ==
    /\ Len(tplLog) < MaxEvents
    /\ Len(renders) < MaxRenders
    /\ fs # "ok" => ~cacheHas(templateCache, templateName)
    /\ LET r == loadTemplate(templateCache, generation, templateName, fs)
       IN  /\ templateCache' = r.cache
           /\ generation' = r.gen
           /\ tplLog' = Append(tplLog, LoadEvent(templateName, r))
           /\ renders' = Append(renders,
                  [pc |-> "awaiting", name |-> templateName, data |-> data,
                   loaded |-> [ok |-> r.ok, template |-> r.template,
                               error |-> r.error],
                   logged |-> Len(tplLog) + 1, startT |-> now, endT |-> now,
                   result |-> [ok |-> FALSE, error |-> NoError,
                               template |-> NoTemplate, passed |-> <<>>]])
    /\ UNCHANGED rtVars
    /\ UNCHANGED <<now, transporter, created, jobs, faults>>

\* renderTemplate after its await: the timestamp, the render, the catch.
RenderEnd(i, rt) ==
    /\ i \in 1..Len(renders)
    /\ renders[i].pc = "awaiting"
    /\ rt # "ok" => renders[i].loaded.ok
    /\ LET c == renders[i]
       IN  renders' = [renders EXCEPT ![i] =
               [c EXCEPT !.pc = "settled", !.endT = now,
                         !.result = renderTemplate(c.name, c.data, c.loaded, now, rt)]]
    /\ UNCHANGED rtVars
    /\ UNCHANGED <<templateCache, generation, tplLog, now,
                   transporter, created, jobs, faults>>

clearCacheKeepsAdmin(cache) ==
    [EmptyCache EXCEPT ![AdminLicenseTemplate] = cache[AdminLicenseTemplate]]

\* this.templateCache.clear()
clearCache(cache) == EmptyCache

\* EmailTemplateService.clearCache(), as one of at most `bound` recorded
\* calls.
ClearCacheWithin(bound) ==
    /\ Len(tplLog) < bound
    /\ templateCache' = clearCache(templateCache)
    /\ tplLog' = Append(tplLog, ClearEvent)
    /\ UNCHANGED rtVars
    /\ UNCHANGED <<generation, renders, now, transporter, created, jobs, faults>>

ClearCache == ClearCacheWithin(MaxEvents)

Tick ==
    /\ now < Epoch + MaxTicks
    /\ now' = now + 1
    /\ UNCHANGED rtVars
    /\ UNCHANGED <<templateCache, generation, tplLog, renders,
                   transporter, created, jobs, faults>>

---------------------------------------------------------------------------
(* The email dispatcher: EmailService.                                     *)

\* emailConfig.from and emailConfig.adminEmail
FromAddress == "test@example.com"

AdminEmail == "admin@example.com"

CreateOutcomes == {"ok", "createFail"}

CreateError == LibraryError(<<"Invalid transport configuration">>)

\* What transporter.sendMail settles with: a message id, an Error, or a
\* rejection value that is no Error object.
SendOutcomes == {"ok", "error", "value"}

SmtpError == LibraryError(<<"SMTP connection failed">>)

SmtpValue == ThrownValue(<<"String error">>)

sendFailure(sm) == IF sm = "error" THEN SmtpError ELSE SmtpValue

getTransporterAlwaysNew(tr, n, ct) ==
    IF ct = "createFail"
    THEN [ok |-> FALSE, transporter |-> tr, created |-> n, error |-> CreateError]
    ELSE [ok |-> TRUE, transporter |-> n + 1, created |-> n + 1, error |-> NoError]

getTransporterStoresBroken(tr, n, ct) ==
    IF tr # 0
    THEN [ok |-> TRUE, transporter |-> tr, created |-> n, error |-> NoError]
    ELSE IF ct = "createFail"
    THEN [ok |-> FALSE, transporter |-> n + 1, created |-> n, error |-> CreateError]
    ELSE [ok |-> TRUE, transporter |-> n + 1, created |-> n + 1, error |-> NoError]

\* getTransporter: the static transporter (0 for null) and the number of
\* transports created so far, after the call.
getTransporter(tr, n, ct) ==
    IF tr # 0
    THEN [ok |-> TRUE, transporter |-> tr, created |-> n, error |-> NoError]
    ELSE IF ct = "createFail"
    THEN [ok |-> FALSE, transporter |-> tr, created |-> n, error |-> CreateError]
    ELSE [ok |-> TRUE, transporter |-> n + 1, created |-> n + 1, error |-> NoError]

\* What sendLicensePurchaseNotification renders and sends, in order.
sendLicensePurchaseNotification(data) ==
    [adminTemplate |-> AdminLicenseTemplate,
     adminData |-> [customerName |-> data.customerName,
                    customerEmail |-> data.customerEmail,
                    licenseKey |-> data.licenseKey,
                    licenseTypeName |-> data.licenseTypeName,
                    licenseTypeDescription |-> data.licenseTypeDescription,
                    licenseTypeMaxDomains |-> data.licenseTypeMaxDomains],
     adminSubject |-> <<"New License Purchase: ", data.licenseTypeName>>,
     customerTemplate |-> CustomerLicenseTemplate,
     customerData |-> [customerName |-> data.customerName,
                       licenseKey |-> data.licenseKey,
                       licenseTypeName |-> data.licenseTypeName,
                       licenseTypeDescription |-> data.licenseTypeDescription,
                       licenseTypeMaxDomains |-> data.licenseTypeMaxDomains],
     customerSubject |-> <<"Your License is Ready: ", data.licenseTypeName>>]

\* What sendCreditPurchaseNotification renders and sends, in order.
sendCreditPurchaseNotification(data) ==
    [adminTemplate |-> AdminCreditTemplate,
     adminData |-> [customerEmail |-> data.customerEmail,
                    creditAmount |-> data.creditAmount,
                    purchaseTypeName |-> data.purchaseTypeName,
                    purchaseTypeDescription |-> data.purchaseTypeDescription,
                    transactionId |-> data.transactionId],
     adminSubject |-> <<"New Credit Purchase: ", data.purchaseTypeName>>,
     customerTemplate |-> CustomerCreditTemplate,
     customerData |-> [creditAmount |-> data.creditAmount,
                       purchaseTypeName |-> data.purchaseTypeName,
                       purchaseTypeDescription |-> data.purchaseTypeDescription,
                       transactionId |-> data.transactionId],
     customerSubject |-> <<"Thank You for Your Credit Purchase: ",
                           data.purchaseTypeName>>]

Plan(call) ==
    IF call.fn = "sendLicensePurchaseNotification"
    THEN sendLicensePurchaseNotification(call.data)
    ELSE sendCreditPurchaseNotification(call.data)

templateOf(plan, who) ==
    IF who = "admin" THEN plan.adminTemplate ELSE plan.customerTemplate

dataOf(plan, who) == IF who = "admin" THEN plan.adminData ELSE plan.customerData

subjectOf(plan, who) ==
    IF who = "admin" THEN plan.adminSubject ELSE plan.customerSubject

recipientAlwaysAdmin(call, who) == AdminEmail

\* to: emailConfig.adminEmail for the admin message, data.customerEmail for
\* the customer's.
recipient(call, who) == IF who = "admin" THEN AdminEmail ELSE call.data.customerEmail

notificationFailureKeepCode(cause) ==
    EmailWorkerError(IF cause.code # "" THEN cause.code ELSE "EMAIL_ERROR",
                     <<"Failed to send email: ">> \o errorMessage(cause))

notificationFailureNoPrefix(cause) ==
    EmailWorkerError("EMAIL_ERROR", errorMessage(cause))

\* The catch block of both notification functions.
notificationFailure(cause) ==
    EmailWorkerError("EMAIL_ERROR",
                     <<"Failed to send email: ">> \o errorMessage(cause))

---------------------------------------------------------------------------
(* The job router and the per-job callback: EmailWorker.processJob.        *)

\* new Worker(..., { concurrency: 5 })
Concurrency == 5

mayFetchUnbounded(active) == active >= 0

\* concurrency: 5 -- the consumer takes a job only below that many callbacks.
mayFetch(active) == active < Concurrency

LicenseJob ==
    [emailType |-> "license_purchase", userId |-> 1, licenseId |-> 100,
     licenseKey |-> "ABC-123", customerEmail |-> "customer@example.com",
     customerName |-> "John Doe", licenseTypeName |-> "Professional",
     licenseTypeDescription |-> "Professional License",
     licenseTypeMaxDomains |-> 5, stripeLicenseRecordId |-> 200]

CreditJob ==
    [emailType |-> "credit_purchase", userId |-> 2, licenseId |-> 200,
     creditAmount |-> 1000, transactionId |-> 300,
     customerEmail |-> "customer2@example.com", purchaseTypeName |-> "Standard Package",
     purchaseTypeDescription |-> "Standard Credit Package",
     stripeCreditRecordId |-> 400]

UnknownJob ==
    [emailType |-> "unknown_type", userId |-> 1,
     customerEmail |-> "customer@example.com"]

Payloads == {LicenseJob, CreditJob, UnknownJob}

NoData == [emailType |-> ""]

NoLoad == [ok |-> FALSE, template |-> NoTemplate, error |-> NoError]

\* job.attemptsMade as the queue hands it over: 0 on a first delivery
\* (part_006), 1 on a delivery after one failed attempt.
AttemptsMade == {0, 1}

QueuedJob ==
    [pc |-> "queued", data |-> NoData, attemptsMade |-> 0, calls |-> <<>>,
     trace |-> <<>>, via |-> 0, loaded |-> NoLoad, cause |-> NoError,
     log |-> <<>>, caught |-> NoError, error |-> NoError]

isLicensePurchase(data) == data.emailType = "license_purchase"

isCreditPurchase(data) == data.emailType = "credit_purchase"

routeUnlessProcessed(data) ==
    IF \E k \in 1..MaxJobs : jobs[k].pc = "completed" /\ jobs[k].data = data
    THEN ""
    ELSE IF isLicensePurchase(data) THEN "sendLicensePurchaseNotification"
    ELSE IF isCreditPurchase(data) THEN "sendCreditPurchaseNotification"
    ELSE ""

\* The if / else if / else of processJob: the send path it calls, "" for none.
route(data) ==
    IF isLicensePurchase(data) THEN "sendLicensePurchaseNotification"
    ELSE IF isCreditPurchase(data) THEN "sendCreditPurchaseNotification"
    ELSE ""

unknownEmailTypeNoValue(emailType) ==
    EmailWorkerError("VALIDATION_ERROR", <<"Unknown email type: ">>)

\* throw new EmailWorkerError('VALIDATION_ERROR', `Unknown email type: ${emailType}`)
unknownEmailType(emailType) ==
    EmailWorkerError("VALIDATION_ERROR", <<"Unknown email type: ", emailType>>)

dispatchAltered(fn, data) ==
    [fn |-> fn, data |-> [data EXCEPT !.customerEmail = AdminEmail]]

\* await EmailService.send...Notification(job.data)
dispatch(fn, data) == [fn |-> fn, data |-> data]

InFlight ==
    Cardinality({j \in 1..MaxJobs : jobs[j].pc \notin {"queued", "completed", "failed"}})

Fault(b) == IF b THEN 1 ELSE 0

RenderedEvent(who, templateName, r) ==
    [op |-> "render", who |-> who, name |-> templateName, from |-> "", to |-> "",
     subject |-> <<>>, via |-> 0, status |-> IF r.ok THEN "ok" ELSE "failed",
     html |-> [template |-> r.template, passed |-> r.passed]]

sendMailOfFirstJob(call, who, via, r) ==
    LET current == IF jobs[1].calls # <<>> THEN jobs[1].calls[1] ELSE call
    IN  [op |-> "sendMail", who |-> who, name |-> "", from |-> FromAddress,
         to |-> recipient(current, who),
         subject |-> subjectOf(Plan(current), who), via |-> via,
         status |-> "pending",
         html |-> [template |-> r.template, passed |-> r.passed]]

\* transporter.sendMail({ from, to, subject, html })
sendMail(call, who, via, r) ==
    [op |-> "sendMail", who |-> who, name |-> "", from |-> FromAddress,
     to |-> recipient(call, who),
     subject |-> subjectOf(Plan(call), who), via |-> via, status |-> "pending",
     html |-> [template |-> r.template, passed |-> r.passed]]

\* logger.error({ userId, licenseId, error: errorMessage }, 'Failed to send ...')
\* in the catch of the send path.
notificationFailedLog(call, cause) ==
    [by |-> "EmailService", level |-> "error",
     msg |-> IF call.fn = "sendLicensePurchaseNotification"
             THEN "Failed to send license purchase notification email"
             ELSE "Failed to send credit purchase notification email",
     error |-> errorMessage(cause)]

\* logger.error({ ..., status: 'failed', error: errorMessage,
\* attempts: job.attemptsMade }, 'Failed to send email notification')
failedLog(job, error) ==
    [by |-> "processJob", level |-> "error",
     msg |-> "Failed to send email notification", status |-> "failed",
     error |-> errorMessage(error), attempts |-> job.attemptsMade]

processJobCatchRewrapped(job, error) ==
    [job EXCEPT !.pc = "failed", !.caught = error,
                !.log = Append(@, failedLog(job, error)),
                !.error = EmailWorkerError("EMAIL_ERROR",
                              <<"Job failed: ">> \o errorMessage(error))]

\* The catch of processJob: log the failure, then throw error.
processJobCatch(job, error) ==
    [job EXCEPT !.pc = "failed", !.caught = error,
                !.log = Append(@, failedLog(job, error)),
                !.error = error]

FailedRetries(job, cause) ==
    [job EXCEPT !.pc = "adminRender", !.cause = cause, !.loaded = NoLoad]

FailedSwallowed(job, cause) ==
    [job EXCEPT !.pc = "completed", !.cause = cause, !.loaded = NoLoad]

FailedRollsBack(job, cause) ==
    processJobCatch(
        [job EXCEPT !.cause = cause, !.loaded = NoLoad, !.trace = <<>>,
                    !.log = Append(@, notificationFailedLog(job.calls[1], cause))],
        notificationFailure(cause))

\* The notification call fails: its catch logs and wraps the cause, then
\* the catch of processJob logs and throws the error on.
Failed(job, cause) ==
    processJobCatch(
        [job EXCEPT !.cause = cause, !.loaded = NoLoad,
                    !.log = Append(@, notificationFailedLog(job.calls[1], cause))],
        notificationFailure(cause))

\* processJob up to the first await of the send path: the routing, then
\* getTransporter and the load of the admin template.
ProcessJob(j, payload, attemptsMade, ct, fs) ==
    /\ jobs[j].pc = "queued"
    /\ \A i \in 1..(j - 1) : jobs[i].pc # "queued"
    /\ mayFetch(InFlight)
    /\ LET fn == route(payload)
           call == dispatch(fn, payload)
           g == getTransporter(transporter, created, ct)
           name == Plan(call).adminTemplate
           r == loadTemplate(templateCache, generation, name, fs)
           started == [jobs[j] EXCEPT !.data = payload,
                                      !.attemptsMade = attemptsMade]
       IN  /\ ct # "ok" => fn # "" /\ transporter = 0
           /\ fs # "ok" => fn # "" /\ g.ok /\ ~cacheHas(templateCache, name)
           /\ faults + Fault(ct # "ok") + Fault(fs # "ok") <= MaxFaults
           /\ faults' = faults + Fault(ct # "ok") + Fault(fs # "ok")
           /\ IF fn = ""
              THEN /\ jobs' = [jobs EXCEPT ![j] =
                          processJobCatch(started,
                                          unknownEmailType(payload.emailType))]
                   /\ UNCHANGED <<transporter, created, templateCache, generation>>
              ELSE IF ~g.ok
              THEN /\ jobs' = [jobs EXCEPT ![j] =
                          Failed([started EXCEPT !.calls = <<call>>], g.error)]
                   /\ transporter' = g.transporter
                   /\ created' = g.created
                   /\ UNCHANGED <<templateCache, generation>>
              ELSE /\ transporter' = g.transporter
                   /\ created' = g.created
                   /\ templateCache' = r.cache
                   /\ generation' = r.gen
                   /\ jobs' = [jobs EXCEPT ![j] =
                          [started EXCEPT !.pc = "adminRender", !.calls = <<call>>,
                               !.via = g.transporter,
                               !.loaded = [ok |-> r.ok, template |-> r.template,
                                           error |-> r.error]]]
    /\ UNCHANGED rtVars
    /\ UNCHANGED <<tplLog, renders, now>>

\* renderTemplate after its await, then the call of sendMail with the html.
RenderStep(j, who, rt) ==
    /\ jobs[j].pc = IF who = "admin" THEN "adminRender" ELSE "customerRender"
    /\ rt # "ok" => jobs[j].loaded.ok /\ faults < MaxFaults
    /\ faults' = faults + Fault(rt # "ok")
    /\ LET call == jobs[j].calls[1]
           name == templateOf(Plan(call), who)
           r == renderTemplate(name, dataOf(Plan(call), who), jobs[j].loaded, now, rt)
           rendered == [jobs[j] EXCEPT
                            !.trace = Append(@, RenderedEvent(who, name, r)),
                            !.loaded = NoLoad]
       IN  IF ~r.ok
           THEN jobs' = [jobs EXCEPT ![j] = Failed(rendered, r.error)]
           ELSE jobs' = [jobs EXCEPT ![j] =
                    [rendered EXCEPT
                         !.pc = IF who = "admin" THEN "adminSend" ELSE "customerSend",
                         !.trace = Append(@, sendMail(call, who, jobs[j].via, r))]]
    /\ UNCHANGED rtVars
    /\ UNCHANGED <<templateCache, generation, tplLog, renders, now,
                   transporter, created>>

Settled(trace, sm) ==
    [trace EXCEPT ![Len(trace)].status = IF sm = "ok" THEN "sent" ELSE "rejected"]

\* The admin sendMail settles; on success the customer template is loaded.
AdminSendDone(j, sm, fs) ==
    /\ jobs[j].pc = "adminSend"
    /\ LET call == jobs[j].calls[1]
           name == Plan(call).customerTemplate
           r == loadTemplate(templateCache, generation, name, fs)
           settled == [jobs[j] EXCEPT !.trace = Settled(@, sm)]
       IN  /\ fs # "ok" => sm = "ok" /\ ~cacheHas(templateCache, name)
           /\ faults + Fault(sm # "ok") + Fault(fs # "ok") <= MaxFaults
           /\ faults' = faults + Fault(sm # "ok") + Fault(fs # "ok")
           /\ IF sm # "ok"
              THEN /\ jobs' = [jobs EXCEPT ![j] = Failed(settled, sendFailure(sm))]
                   /\ UNCHANGED <<templateCache, generation>>
              ELSE /\ templateCache' = r.cache
                   /\ generation' = r.gen
                   /\ jobs' = [jobs EXCEPT ![j] =
                          [settled EXCEPT !.pc = "customerRender",
                               !.loaded = [ok |-> r.ok, template |-> r.template,
                                           error |-> r.error]]]
    /\ UNCHANGED rtVars
    /\ UNCHANGED <<tplLog, renders, now, transporter, created>>

\* The customer sendMail settles; on success the send path returns and
\* processJob resolves.
CustomerSendDone(j, sm) ==
    /\ jobs[j].pc = "customerSend"
    /\ sm # "ok" => faults < MaxFaults
    /\ faults' = faults + Fault(sm # "ok")
    /\ LET settled == [jobs[j] EXCEPT !.trace = Settled(@, sm)]
       IN  IF sm # "ok"
           THEN jobs' = [jobs EXCEPT ![j] = Failed(settled, sendFailure(sm))]
           ELSE jobs' = [jobs EXCEPT ![j] = [settled EXCEPT !.pc = "completed"]]
    /\ UNCHANGED rtVars
    /\ UNCHANGED <<templateCache, generation, tplLog, renders, now,
                   transporter, created>>

\* What a test double of EmailService settles with when processJob awaits
\* it: nothing, an EmailWorkerError, or a value that is no Error object.
StubOutcomes == {"ok", "error", "value"}

\* new EmailWorkerError('EMAIL_ERROR', 'Failed to send email')
StubError == EmailWorkerError("EMAIL_ERROR", <<"Failed to send email">>)

\* mockRejectedValue('String error')
StubValue == ThrownValue(<<"String error">>)

stubFailure(outcome) == IF outcome = "error" THEN StubError ELSE StubValue

\* processJob with EmailService replaced by a test double: the routing,
\* then the await of the double.
DispatchStubbed(j, payload, attemptsMade) ==
    /\ jobs[j].pc = "queued"
    /\ \A i \in 1..(j - 1) : jobs[i].pc # "queued"
    /\ mayFetch(InFlight)
    /\ route(payload) # ""
    /\ jobs' = [jobs EXCEPT ![j] =
           [@ EXCEPT !.data = payload, !.attemptsMade = attemptsMade,
                     !.pc = "dispatched",
                     !.calls = <<dispatch(route(payload), payload)>>]]
    /\ UNCHANGED rtVars
    /\ UNCHANGED <<templateCache, generation, tplLog, renders, now,
                   transporter, created, faults>>

\* The double settles: processJob resolves, or its catch logs and rethrows.
StubSettles(j, outcome) ==
    /\ jobs[j].pc = "dispatched"
    /\ jobs' = [jobs EXCEPT ![j] =
           IF outcome = "ok" THEN [@ EXCEPT !.pc = "completed"]
           ELSE processJobCatch(@, stubFailure(outcome))]
    /\ UNCHANGED rtVars
    /\ UNCHANGED <<templateCache, generation, tplLog, renders, now,
                   transporter, created, faults>>

---------------------------------------------------------------------------
(* The Worker Runtime: EmailWorker.start, setupEventHandlers and shutdown, *)
(* the consumer and the connection they create, and the process around it. *)
(* The job callback is counted here and modelled step by step above.       *)

Signals == {"SIGINT", "SIGTERM"}

\* The six worker.on(...) registrations of setupEventHandlers.
Observers == {"ready", "active", "completed", "failed", "stalled", "error"}

StartOutcomes == {"ok", "redisFail", "workerFail"}

\* @throws {Error} If Redis connection fails or worker cannot be created
RedisError == LibraryError(<<"Redis connection failed">>)

WorkerError == LibraryError(<<"Worker cannot be created">>)

startFailure(outcome) ==
    IF outcome = "redisFail" THEN RedisError
    ELSE IF outcome = "workerFail" THEN WorkerError
    ELSE NoError

CloseOutcomes == {"ok", "error", "value"}

CloseError == LibraryError(<<"Close failed">>)

QuitError == LibraryError(<<"Quit failed">>)

CloseValue == ThrownValue(<<"String error">>)

closeFailure(step, outcome) ==
    IF outcome = "value" THEN CloseValue
    ELSE IF step = "closingWorker" THEN CloseError
    ELSE QuitError

\* new Redis({ host, port, password, db, maxRetriesPerRequest: null })
NewRedis == [state |-> "open", quitCalls |-> 0]

\* stalledInterval: 30000, maxStalledCount: 1
StalledInterval == 30000

MaxStalledCount == 1

NewWorkerReady(connection) ==
    [queueName |-> "email_notifications", connection |-> connection,
     concurrency |-> Concurrency, stalledInterval |-> StalledInterval,
     maxStalledCount |-> MaxStalledCount, state |-> "running", ready |-> TRUE,
     active |-> 0, closeCalls |-> 0, observers |-> {},
     logged |-> {}, missed |-> {}]

NewWorkerRecoversTwice(connection) ==
    [queueName |-> "email_notifications", connection |-> connection,
     concurrency |-> Concurrency, stalledInterval |-> StalledInterval,
     maxStalledCount |-> MaxStalledCount + 1, state |-> "running",
     ready |-> FALSE, active |-> 0, closeCalls |-> 0, observers |-> {},
     logged |-> {}, missed |-> {}]

\* new Worker('email_notifications', this.processJob.bind(this), { ... }):
\* a consumer that has yet to connect, with no observer registered.
NewWorker(connection) ==
    [queueName |-> "email_notifications", connection |-> connection,
     concurrency |-> Concurrency, stalledInterval |-> StalledInterval,
     maxStalledCount |-> MaxStalledCount, state |-> "running", ready |-> FALSE,
     active |-> 0, closeCalls |-> 0, observers |-> {},
     logged |-> {}, missed |-> {}]

\* A consumer put in place by hand, with no start().
StubWorker == NewWorker(0)

Live(objects) == {i \in 1..Len(objects) : objects[i].state # "closed"}

\* What the observer of a lifecycle event does: one log entry.
\*   ready: console.log + logger.info; active: logger.debug;
\*   completed: logger.info; failed: logger.error; stalled: logger.warn;
\*   error: logger.error.
observed(event) ==
    [by |-> "observer", event |-> event,
     level |-> IF event \in {"ready", "completed"} THEN "info"
               ELSE IF event = "active" THEN "debug"
               ELSE IF event = "stalled" THEN "warn"
               ELSE "error",
     msg |-> IF event = "ready" THEN "Email Worker is ready and listening for jobs"
             ELSE IF event = "active" THEN "Job started processing"
             ELSE IF event = "completed" THEN "Job completed"
             ELSE IF event = "failed" THEN "Job failed"
             ELSE IF event = "stalled" THEN "Job stalled"
             ELSE "Worker error"]

emitStops(consumer, event) ==
    [consumer EXCEPT !.logged = @ \union {observed(event)}, !.state = "closed"]

\* The consumer emits a lifecycle event: the observer registered for it
\* runs; an event with no observer is missed.
emit(consumer, event) ==
    IF event \in consumer.observers
    THEN [consumer EXCEPT !.logged = @ \union {observed(event)}]
    ELSE [consumer EXCEPT !.missed = @ \union {event}]

\* worker.close(): the consumer stops taking jobs.
callClose(cs, w) ==
    [cs EXCEPT ![w].closeCalls = @ + 1,
               ![w].state = IF @ = "running" THEN "closing" ELSE @]

\* redis.quit()
callQuit(cn, r) == [cn EXCEPT ![r].quitCalls = @ + 1]

\* The process before the entrypoint or a test has called anything; setups
\* counts the direct calls of setupEventHandlers that have returned.
StartedProcess ==
    [pc |-> "boot", starts |-> 0, signals |-> 0, exitCode |-> 0, exitBy |-> "",
     log |-> <<>>, setups |-> 0]

Running == process.pc # "exited"

shutdownNextQuitFirst(pc, w, r) ==
    IF pc = "called" /\ r # 0 THEN "quitting"
    ELSE IF pc \in {"called", "quitting"} /\ w # 0 THEN "closingWorker"
    ELSE "resolved"

shutdownNextNeedsWorker(pc, w, r) ==
    IF pc = "called" /\ w # 0 THEN "closingWorker"
    ELSE IF pc = "closingWorker" /\ r # 0 THEN "quitting"
    ELSE "resolved"

\* The try block of shutdown: where the call stands next, given where it
\* stands (pc) and the handles this.worker (w) and this.redis (r) it reads.
\*   if (this.worker) { await this.worker.close(); }
\*   if (this.redis)  { await this.redis.quit(); }
shutdownNext(pc, w, r) ==
    IF pc = "called" /\ w # 0 THEN "closingWorker"
    ELSE IF pc \in {"called", "closingWorker"} /\ r # 0 THEN "quitting"
    ELSE "resolved"

shutdownCatchSwallows(error) ==
    [pc |-> "resolved", error |-> NoError, exit |-> FALSE,
     logged |-> [by |-> "shutdown", level |-> "error",
                 msg |-> "Error during shutdown", error |-> errorMessage(error)]]

shutdownCatchExits(error) ==
    [pc |-> "rejected", error |-> error, exit |-> TRUE,
     logged |-> [by |-> "shutdown", level |-> "error",
                 msg |-> "Error during shutdown", error |-> errorMessage(error)]]

\* The catch of shutdown: logger.error({ error: errorMessage }, 'Error during
\* shutdown'); throw error.  It does not call process.exit.
shutdownCatch(error) ==
    [pc |-> "rejected", error |-> error, exit |-> FALSE,
     logged |-> [by |-> "shutdown", level |-> "error",
                 msg |-> "Error during shutdown", error |-> errorMessage(error)]]

\* logger.info('Email Worker shutdown complete')
shutdownComplete ==
    [by |-> "shutdown", level |-> "info",
     msg |-> "Email Worker shutdown complete", error |-> <<>>]

exitCodeOfAlwaysZero(pc) == 0

\* this.shutdown().then(() => process.exit(0)).catch(() => process.exit(1))
exitCodeOf(pc) == IF pc = "resolved" THEN 0 ELSE 1

startFailedKeepsRunning(error) ==
    [exit |-> FALSE, exitCode |-> 0,
     logged |-> [by |-> "server", level |-> "error",
                 msg |-> "Failed to start Email Worker", error |-> error]]

\* The catch of the entrypoint: logger.error({ error }, 'Failed to start
\* Email Worker'); process.exit(1).
startFailed(error) ==
    [exit |-> TRUE, exitCode |-> 1,
     logged |-> [by |-> "server", level |-> "error",
                 msg |-> "Failed to start Email Worker", error |-> error]]

Exited(code, by) == [process EXCEPT !.pc = "exited", !.exitCode = code, !.exitBy = by]

setupEventHandlersTwice(w, cs, h) ==
    IF w = 0
    THEN [consumers |-> cs, handlers |-> h]
    ELSE [consumers |-> [cs EXCEPT ![w].observers = Observers],
          handlers |-> [s \in Signals |-> h[s] + 2]]

setupEventHandlersNoObservers(w, cs, h) ==
    [consumers |-> cs, handlers |-> [s \in Signals |-> h[s] + 1]]

setupEventHandlersUnguarded(w, cs, h) ==
    IF w = 0
    THEN [consumers |-> cs, handlers |-> [s \in Signals |-> h[s] + 1]]
    ELSE [consumers |-> [cs EXCEPT ![w].observers = Observers],
          handlers |-> [s \in Signals |-> h[s] + 1]]

\* setupEventHandlers: nothing without a consumer; else the six observers
\* and one handler per signal.
setupEventHandlers(w, cs, h) ==
    IF w = 0
    THEN [consumers |-> cs, handlers |-> h]
    ELSE [consumers |-> [cs EXCEPT ![w].observers = Observers],
          handlers |-> [s \in Signals |-> h[s] + 1]]

\* start(): new Redis, new Worker, setupEventHandlers; no await in between.
Start(outcome) ==
    IF outcome = "redisFail"
    THEN UNCHANGED <<worker, redis, consumers, connections, handlers>>
    ELSE LET r == Len(connections) + 1
             w == Len(consumers) + 1
             set == setupEventHandlers(w, Append(consumers, NewWorker(r)), handlers)
         IN  /\ connections' = Append(connections, NewRedis)
             /\ redis' = r
             /\ IF outcome = "workerFail"
                THEN UNCHANGED <<worker, consumers, handlers>>
                ELSE /\ worker' = w
                     /\ consumers' = set.consumers
                     /\ handlers' = set.handlers

\* The entrypoint: try { await worker.start() } catch { log; process.exit(1) }
Boot(outcome) ==
    /\ process.pc = "boot"
    /\ process.starts = 0
    /\ Start(outcome)
    /\ LET begun == [process EXCEPT !.starts = @ + 1]
           eff == startFailed(startFailure(outcome))
       IN  process' =
               IF outcome = "ok" THEN [begun EXCEPT !.pc = "running"]
               ELSE IF eff.exit
               THEN [begun EXCEPT !.pc = "exited", !.exitCode = eff.exitCode,
                                  !.exitBy = "entrypoint",
                                  !.log = Append(@, eff.logged)]
               ELSE [begun EXCEPT !.pc = "running", !.log = Append(@, eff.logged)]
    /\ UNCHANGED <<shutdowns, queue>>
    /\ UNCHANGED mailVars

\* start() called on the object by some other caller than the entrypoint.
StartCall(outcome) ==
    /\ process.pc = "boot"
    /\ process.starts < MaxStarts
    /\ process.starts = 0 => consumers = <<>> /\ connections = <<>>
    /\ Start(outcome)
    /\ process' = [process EXCEPT !.starts = @ + 1]
    /\ UNCHANGED <<shutdowns, queue>>
    /\ UNCHANGED mailVars

\* (emailWorker as any).worker = { close }; (emailWorker as any).redis = { quit }
AssignHandles(w, r) ==
    /\ process.pc = "boot" /\ process.starts = 0
    /\ shutdowns = <<>> /\ consumers = <<>> /\ connections = <<>>
    /\ w \/ r
    /\ connections' = IF r THEN <<NewRedis>> ELSE <<>>
    /\ redis' = IF r THEN 1 ELSE 0
    /\ consumers' = IF w THEN <<[StubWorker EXCEPT !.connection = redis']>> ELSE <<>>
    /\ worker' = IF w THEN 1 ELSE 0
    /\ UNCHANGED <<handlers, shutdowns, process, queue>>
    /\ UNCHANGED mailVars

\* (emailWorker as any).setupEventHandlers(), called on the object as it
\* stands.
SetupCall ==
    /\ process.pc = "boot" /\ process.starts = 0
    /\ process.setups < MaxSetups
    /\ LET set == setupEventHandlers(worker, consumers, handlers)
       IN  /\ consumers' = set.consumers
           /\ handlers' = set.handlers
    /\ process' = [process EXCEPT !.setups = @ + 1]
    /\ UNCHANGED <<worker, redis, connections, shutdowns, queue>>
    /\ UNCHANGED mailVars

\* A producer adds a job to the queue.
Enqueue ==
    /\ Running
    /\ queue.produced < MaxProduced
    /\ queue' = [queue EXCEPT !.produced = @ + 1, !.waiting = @ + 1]
    /\ UNCHANGED <<worker, redis, consumers, connections, handlers, shutdowns,
                   process>>
    /\ UNCHANGED mailVars

\* The connection of consumer c is established: the consumer reports
\* readiness and starts to take jobs.
Ready(c) ==
    /\ Running
    /\ consumers[c].state = "running"
    /\ ~consumers[c].ready
    /\ consumers[c].connection # 0
    /\ connections[consumers[c].connection].state = "open"
    /\ consumers' = [consumers EXCEPT ![c] = emit([@ EXCEPT !.ready = TRUE], "ready")]
    /\ UNCHANGED <<worker, redis, connections, handlers, shutdowns, process, queue>>
    /\ UNCHANGED mailVars

\* Consumer c takes a waiting job and invokes processJob for it, which runs
\* up to getTransporter.
Fetch(c, ct) ==
    /\ Running
    /\ consumers[c].state = "running"
    /\ consumers[c].ready
    /\ connections[consumers[c].connection].state = "open"
    /\ queue.waiting > 0
    /\ mayFetch(consumers[c].active)
    /\ ct # "ok" => transporter = 0
    /\ consumers' = [consumers EXCEPT ![c] = emit([@ EXCEPT !.active = @ + 1], "active")]
    /\ queue' = [queue EXCEPT !.waiting = @ - 1]
    /\ LET g == getTransporter(transporter, created, ct)
       IN  /\ transporter' = IF g.ok THEN g.transporter ELSE transporter
           /\ created' = IF g.ok THEN g.created ELSE created
    /\ UNCHANGED <<worker, redis, connections, handlers, shutdowns, process>>
    /\ UNCHANGED <<templateCache, generation, tplLog, renders, now, jobs, faults>>

\* A processJob invocation of consumer c settles: resolved or rejected.
Finish(c, ok) ==
    /\ Running
    /\ consumers[c].active > 0
    /\ consumers' = [consumers EXCEPT ![c] =
           emit([@ EXCEPT !.active = @ - 1], IF ok THEN "completed" ELSE "failed")]
    /\ UNCHANGED <<worker, redis, connections, handlers, shutdowns, process, queue>>
    /\ UNCHANGED mailVars

\* The consumer reports a stalled job or an error of its own.
Trouble(c, event) ==
    /\ Running
    /\ consumers[c].state # "closed"
    /\ consumers[c].ready
    /\ consumers' = [consumers EXCEPT ![c] = emit(@, event)]
    /\ UNCHANGED <<worker, redis, connections, handlers, shutdowns, process, queue>>
    /\ UNCHANGED mailVars

\* A job of the queue as the stalled-job check sees it: waiting, active
\* with its lock renewed or not, completed or failed; how often processJob
\* was invoked for it (runs) and how often it was found stalled (stalls).
HeldJob == [state |-> "wait", runs |-> 0, stalls |-> 0, lock |-> FALSE, by |-> ""]

\* A producer adds a job whose lock is followed.
Submit ==
    /\ Running
    /\ Len(queue.held) < MaxHeld
    /\ queue' = [queue EXCEPT !.held = Append(@, HeldJob)]
    /\ UNCHANGED <<worker, redis, consumers, connections, handlers, shutdowns,
                   process>>
    /\ UNCHANGED mailVars

\* Consumer c takes waiting job j, locks it and invokes processJob.
Deliver(c, j) ==
    /\ Running
    /\ consumers[c].state = "running"
    /\ consumers[c].ready
    /\ queue.held[j].state = "wait"
    /\ mayFetch(consumers[c].active)
    /\ consumers' = [consumers EXCEPT ![c] = emit([@ EXCEPT !.active = @ + 1], "active")]
    /\ queue' = [queue EXCEPT !.held[j] =
                     [@ EXCEPT !.state = "active", !.runs = @ + 1, !.lock = TRUE]]
    /\ UNCHANGED <<worker, redis, connections, handlers, shutdowns, process>>
    /\ UNCHANGED mailVars

\* processJob settles for job j while the consumer still holds its lock.
JobSettles(c, j, ok) ==
    /\ Running
    /\ consumers[c].active > 0
    /\ queue.held[j].state = "active" /\ queue.held[j].lock
    /\ consumers' = [consumers EXCEPT ![c] =
           emit([@ EXCEPT !.active = @ - 1], IF ok THEN "completed" ELSE "failed")]
    /\ queue' = [queue EXCEPT !.held[j] =
                     [@ EXCEPT !.state = IF ok THEN "completed" ELSE "failed",
                               !.lock = FALSE, !.by = "processJob"]]
    /\ UNCHANGED <<worker, redis, connections, handlers, shutdowns, process>>
    /\ UNCHANGED mailVars

\* The lock of active job j is no longer renewed: its callback has not
\* signalled progress within the stalled interval.
LockLost(c, j) ==
    /\ Running
    /\ consumers[c].active > 0
    /\ queue.held[j].state = "active" /\ queue.held[j].lock
    /\ consumers' = [consumers EXCEPT ![c].active = @ - 1]
    /\ queue' = [queue EXCEPT !.held[j].lock = FALSE]
    /\ UNCHANGED <<worker, redis, connections, handlers, shutdowns, process>>
    /\ UNCHANGED mailVars

\* What the stalled-job check does with an active job without a lock: a job
\* stalled more often than maxStalledCount is failed, any other goes back
\* to waiting.
stalledNext(job, maxStalledCount) ==
    IF job.stalls + 1 > maxStalledCount
    THEN [job EXCEPT !.state = "failed", !.stalls = @ + 1, !.by = "stalled"]
    ELSE [job EXCEPT !.state = "wait", !.stalls = @ + 1]

\* The stalled-job check of consumer c, run every stalledInterval, finds
\* job j; the consumer emits 'stalled'.
StalledCheck(c, j) ==
    /\ Running
    /\ consumers[c].state = "running"
    /\ consumers[c].ready
    /\ queue.held[j].state = "active" /\ ~queue.held[j].lock
    /\ consumers' = [consumers EXCEPT ![c] = emit(@, "stalled")]
    /\ queue' = [queue EXCEPT !.held[j] = stalledNext(@, consumers[c].maxStalledCount)]
    /\ UNCHANGED <<worker, redis, connections, handlers, shutdowns, process>>
    /\ UNCHANGED mailVars

\* A shutdown() invocation: the consumer (target), the connection (conn)
\* and the SMTP transport (transport) it has called close on, 0 for none;
\* shutdown() has no statement that closes the transport.  seen, calledAt,
\* cause and settledAt record the handles and the number of start() calls
\* at the call, the failure of the awaited step, and the number of start()
\* calls when the call settled.
NewCall(via) ==
    [pc |-> "called", via |-> via, target |-> 0, conn |-> 0, transport |-> 0,
     error |-> NoError,
     log |-> <<>>, seen |-> [worker |-> worker, redis |-> redis],
     calledAt |-> process.starts, cause |-> NoError, settledAt |-> 0]

\* The call runs on from where it stands to its next await or to its end.
advance(call, cs, cn) ==
    LET pc == shutdownNext(call.pc, worker, redis)
    IN  [call |-> [call EXCEPT
                      !.pc = pc,
                      !.target = IF pc = "closingWorker" THEN worker ELSE @,
                      !.conn = IF pc = "quitting" THEN redis ELSE @,
                      !.log = IF pc = "resolved" THEN Append(@, shutdownComplete) ELSE @,
                      !.settledAt = IF pc = "resolved" THEN process.starts ELSE @],
         consumers |-> IF pc = "closingWorker" THEN callClose(cs, worker) ELSE cs,
         connections |-> IF pc = "quitting" THEN callQuit(cn, redis) ELSE cn]

thrownThenQuits(call, cause, eff) ==
    [call EXCEPT !.pc = eff.pc, !.error = eff.error, !.log = Append(@, eff.logged),
                 !.cause = cause, !.settledAt = process.starts,
                 !.conn = call.seen.redis]

\* The awaited step of the call rejects: the catch of shutdown() runs, and
\* nothing of the try block after the await does.
thrown(call, cause, eff) ==
    [call EXCEPT !.pc = eff.pc, !.error = eff.error, !.log = Append(@, eff.logged),
                 !.cause = cause, !.settledAt = process.starts]

\* The process once the call has run on: a call made by a signal handler
\* that has settled is followed at once by the handler's process.exit.
afterCall(call, exits) ==
    IF exits THEN Exited(1, "shutdown")
    ELSE IF call.via \in Signals /\ call.pc \in {"resolved", "rejected"}
    THEN Exited(exitCodeOf(call.pc), "signalHandler")
    ELSE process

\* shutdown() is called and runs to its first await.
BeginShutdown(via) ==
    /\ Len(shutdowns) < MaxShutdowns
    /\ LET a == advance(NewCall(via), consumers, connections)
       IN  /\ shutdowns' = Append(shutdowns, a.call)
           /\ consumers' = a.consumers
           /\ connections' = a.connections
           /\ process' = IF via \in Signals
                         THEN [afterCall(a.call, FALSE) EXCEPT !.signals = @ + 1]
                         ELSE process
    /\ UNCHANGED <<worker, redis, handlers, queue>>
    /\ UNCHANGED mailVars

\* process.on('SIGINT' / 'SIGTERM', ...): the handler calls shutdown() and
\* exits with 0 or 1 once it has settled.
Signal(sig) ==
    /\ process.pc = "running"
    /\ handlers[sig] = 1
    /\ BeginShutdown(sig)

\* shutdown() called directly on the object.
ShutdownCall ==
    /\ process.pc = "boot"
    /\ BeginShutdown("direct")

Settle(k, step, outcome, cs, cn) ==
    IF outcome = "ok"
    THEN LET a == advance(shutdowns[k], cs, cn)
         IN  /\ shutdowns' = [shutdowns EXCEPT ![k] = a.call]
             /\ consumers' = a.consumers
             /\ connections' = a.connections
             /\ process' = afterCall(a.call, FALSE)
    ELSE LET cause == closeFailure(step, outcome)
             eff == shutdownCatch(cause)
             call == thrown(shutdowns[k], cause, eff)
         IN  /\ shutdowns' = [shutdowns EXCEPT ![k] = call]
             /\ process' = afterCall(call, eff.exit)
             /\ UNCHANGED <<consumers, connections>>

\* The awaited worker.close() of call k settles; a close that succeeds has
\* waited for the callbacks in flight.
WorkerClosed(k, outcome) ==
    /\ Running
    /\ shutdowns[k].pc = "closingWorker"
    /\ LET c == shutdowns[k].target
       IN  /\ outcome = "ok" => consumers[c].active = 0
           /\ Settle(k, "closingWorker", outcome,
                     [consumers EXCEPT ![c].state = "closed"], connections)
    /\ UNCHANGED <<worker, redis, handlers, queue>>
    /\ UNCHANGED mailVars

\* The awaited redis.quit() of call k settles.
QuitDone(k, outcome) ==
    /\ Running
    /\ shutdowns[k].pc = "quitting"
    /\ Settle(k, "quitting", outcome, consumers,
              [connections EXCEPT ![shutdowns[k].conn].state = "closed"])
    /\ UNCHANGED <<worker, redis, handlers, queue>>
    /\ UNCHANGED mailVars

---------------------------------------------------------------------------
(* The specifications.                                                     *)

Init ==
    /\ templateCache = EmptyCache
    /\ generation = [n \in TemplateNames |-> 0]
    /\ tplLog = <<>>
    /\ renders = <<>>
    /\ now = Epoch
    /\ transporter = 0
    /\ created = 0
    /\ jobs = [j \in 1..MaxJobs |-> QueuedJob]
    /\ faults = 0
    /\ worker = 0
    /\ redis = 0
    /\ consumers = <<>>
    /\ connections = <<>>
    /\ handlers = [s \in Signals |-> 0]
    /\ shutdowns = <<>>
    /\ process = StartedProcess
    /\ queue = [produced |-> 0, waiting |-> 0, held |-> <<>>]

\* The worker: jobs handed to processJob, up to Concurrency at a time.
Next ==
    \/ \E j \in 1..MaxJobs, payload \in Payloads, a \in AttemptsMade,
          ct \in CreateOutcomes, fs \in FsOutcomes : ProcessJob(j, payload, a, ct, fs)
    \/ \E j \in 1..MaxJobs, who \in {"admin", "customer"}, rt \in RenderOutcomes :
          RenderStep(j, who, rt)
    \/ \E j \in 1..MaxJobs, sm \in SendOutcomes, fs \in FsOutcomes :
          AdminSendDone(j, sm, fs)
    \/ \E j \in 1..MaxJobs, sm \in SendOutcomes : CustomerSendDone(j, sm)

Spec == Init /\ [][Next]_vars

\* The worker with EmailService either real or, for an invocation, replaced
\* by a test double, as the unit tests of processJob do.
NextStubbed ==
    \/ Next
    \/ \E j \in 1..MaxJobs, payload \in Payloads, a \in AttemptsMade :
          DispatchStubbed(j, payload, a)
    \/ \E j \in 1..MaxJobs, outcome \in StubOutcomes : StubSettles(j, outcome)

SpecStubbed == Init /\ [][NextStubbed]_vars

\* The template service called directly, as its callers and tests do.
NextTemplates ==
    \/ \E n \in DirectNames, fs \in FsOutcomes : LoadTemplateCall(n, fs)
    \/ \E n \in DirectNames, data \in DataSamples, fs \in FsOutcomes :
          RenderBegin(n, data, fs)
    \/ \E i \in 1..MaxRenders, rt \in RenderOutcomes : RenderEnd(i, rt)
    \/ ClearCache

SpecTemplates == Init /\ [][NextTemplates]_vars

\* loadTemplate and clearCache alone, as the cache tests call them.
NextCache ==
    \/ \E n \in DirectNames, fs \in FsOutcomes :
          LoadTemplateWithin(n, fs, MaxCacheEvents)
    \/ ClearCacheWithin(MaxCacheEvents)

SpecCache == Init /\ [][NextCache]_vars

\* renderTemplate calls while the wall clock advances.
NextTimed ==
    \/ \E n \in DirectNames, data \in DataSamples, fs \in FsOutcomes :
          RenderBegin(n, data, fs)
    \/ \E i \in 1..MaxRenders, rt \in RenderOutcomes : RenderEnd(i, rt)
    \/ Tick

SpecTimed == Init /\ [][NextTimed]_vars

\* The server process: the entrypoint starts the worker once, the consumer
\* takes jobs, signals shut it down.
NextServer ==
    \/ \E outcome \in StartOutcomes : Boot(outcome)
    \/ Enqueue
    \/ \E c \in 1..Len(consumers) : Ready(c)
    \/ \E c \in 1..Len(consumers), ct \in CreateOutcomes : Fetch(c, ct)
    \/ \E c \in 1..Len(consumers), ok \in BOOLEAN : Finish(c, ok)
    \/ \E c \in 1..Len(consumers), event \in {"stalled", "error"} : Trouble(c, event)
    \/ \E sig \in Signals : Signal(sig)
    \/ \E k \in 1..Len(shutdowns), outcome \in CloseOutcomes : WorkerClosed(k, outcome)
    \/ \E k \in 1..Len(shutdowns), outcome \in CloseOutcomes : QuitDone(k, outcome)

SpecServer == Init /\ [][NextServer]_vars

\* One EmailWorker object driven by its callers: any sequence of start() and
\* shutdown() calls, or handles put in place by hand.
NextRuntime ==
    \/ \E w \in BOOLEAN, r \in BOOLEAN : AssignHandles(w, r)
    \/ \E outcome \in StartOutcomes : StartCall(outcome)
    \/ ShutdownCall
    \/ \E k \in 1..Len(shutdowns), outcome \in CloseOutcomes : WorkerClosed(k, outcome)
    \/ \E k \in 1..Len(shutdowns), outcome \in CloseOutcomes : QuitDone(k, outcome)

SpecRuntime == Init /\ [][NextRuntime]_vars

\* The object with its handles assigned by hand and its private
\* setupEventHandlers called directly, as the unit tests do.
NextFixture ==
    \/ \E w \in BOOLEAN, r \in BOOLEAN : AssignHandles(w, r)
    \/ SetupCall
    \/ ShutdownCall
    \/ \E k \in 1..Len(shutdowns), outcome \in CloseOutcomes : WorkerClosed(k, outcome)
    \/ \E k \in 1..Len(shutdowns), outcome \in CloseOutcomes : QuitDone(k, outcome)

SpecFixture == Init /\ [][NextFixture]_vars

\* The server process with jobs that may stall: the consumer delivers them,
\* their callbacks settle or stop signalling progress, and the stalled-job
\* check runs.
NextStalls ==
    \/ \E outcome \in StartOutcomes : Boot(outcome)
    \/ \E c \in 1..Len(consumers) : Ready(c)
    \/ Submit
    \/ \E c \in 1..Len(consumers), j \in 1..Len(queue.held) : Deliver(c, j)
    \/ \E c \in 1..Len(consumers), j \in 1..Len(queue.held), ok \in BOOLEAN :
          JobSettles(c, j, ok)
    \/ \E c \in 1..Len(consumers), j \in 1..Len(queue.held) : LockLost(c, j)
    \/ \E c \in 1..Len(consumers), j \in 1..Len(queue.held) : StalledCheck(c, j)

\* The consumer keeps taking waiting jobs, a callback that keeps its lock
\* settles (every await of processJob is bounded by the SMTP timeouts), and
\* the stalled-job check keeps running.
FairStalls ==
    /\ \A c \in 1..1 : WF_vars(c <= Len(consumers) /\ Ready(c))
    /\ \A c \in 1..1, j \in 1..(MaxHeld + 1) :
           /\ WF_vars(c <= Len(consumers) /\ j <= Len(queue.held) /\ Deliver(c, j))
           /\ WF_vars(c <= Len(consumers) /\ j <= Len(queue.held)
                         /\ \E ok \in BOOLEAN : JobSettles(c, j, ok))
           /\ WF_vars(c <= Len(consumers) /\ j <= Len(queue.held)
                         /\ StalledCheck(c, j))

SpecStalls == Init /\ [][NextStalls]_vars /\ FairStalls

---------------------------------------------------------------------------
(* Properties of the job router.                                           *)

Started(j) == jobs[j].pc # "queued"

\* The notification call of job j has failed (the send path was entered).
CallFailed(j) == jobs[j].pc = "failed" /\ jobs[j].calls # <<>>

SendMails(trace) == {i \in 1..Len(trace) : trace[i].op = "sendMail"}

\* C1: a job of type license_purchase makes processJob call
\* sendLicensePurchaseNotification exactly once, with the job's payload as it
\* was dequeued, and never sendCreditPurchaseNotification; a job of type
\* credit_purchase likewise calls only sendCreditPurchaseNotification, once.
C1_DispatchByType ==
    \A j \in 1..MaxJobs :
        /\ Started(j) /\ jobs[j].data.emailType = "license_purchase" =>
               jobs[j].calls = <<[fn |-> "sendLicensePurchaseNotification",
                                  data |-> jobs[j].data]>>
        /\ Started(j) /\ jobs[j].data.emailType = "credit_purchase" =>
               jobs[j].calls = <<[fn |-> "sendCreditPurchaseNotification",
                                  data |-> jobs[j].data]>>

C1_Witness ==
    \E j, k \in 1..MaxJobs :
        /\ jobs[j].pc = "completed" /\ jobs[j].data = LicenseJob
        /\ jobs[k].pc = "completed" /\ jobs[k].data = CreditJob

\* C2: a job whose emailType is neither license_purchase nor credit_purchase
\* makes processJob fail with an EmailWorkerError of code VALIDATION_ERROR
\* and message "Unknown email type: <value>"; no send path is called, nothing
\* is rendered and nothing is sent.
C2_UnknownTypeRejected ==
    \A j \in 1..MaxJobs :
        Started(j)
        /\ jobs[j].data.emailType \notin {"license_purchase", "credit_purchase"} =>
            /\ jobs[j].pc = "failed"
            /\ jobs[j].error =
                   [name |-> "EmailWorkerError", code |-> "VALIDATION_ERROR",
                    message |-> <<"Unknown email type: ", jobs[j].data.emailType>>]
            /\ jobs[j].calls = <<>>
            /\ jobs[j].trace = <<>>

C2_Witness ==
    \E j \in 1..MaxJobs : jobs[j].pc = "failed" /\ jobs[j].data = UnknownJob

---------------------------------------------------------------------------
(* Properties of the email dispatcher.                                     *)

\* C3: a notification call that returns has rendered the admin template,
\* sent it to the admin address, rendered the customer template and sent it
\* to data.customerEmail, in this order, with exactly two sendMail calls; and
\* in every state a customer sendMail follows a settled admin sendMail.
C3_TwoSendsInOrder ==
    \A j \in 1..MaxJobs :
        LET t == jobs[j].trace
        IN  /\ jobs[j].pc = "completed" =>
                /\ Len(t) = 4
                /\ Cardinality(SendMails(t)) = 2
                /\ t[1].op = "render" /\ t[1].who = "admin"
                /\ t[1].name = Plan(jobs[j].calls[1]).adminTemplate
                /\ t[2].op = "sendMail" /\ t[2].to = AdminEmail
                /\ t[3].op = "render" /\ t[3].who = "customer"
                /\ t[3].name = Plan(jobs[j].calls[1]).customerTemplate
                /\ t[4].op = "sendMail" /\ t[4].to = jobs[j].data.customerEmail
                /\ \A i \in 1..4 : t[i].status \in {"ok", "sent"}
            /\ \A i \in SendMails(t) :
                   t[i].who = "customer" =>
                       \E k \in 1..(i - 1) :
                           /\ t[k].op = "sendMail" /\ t[k].who = "admin"
                           /\ t[k].status = "sent"

C3_Witness ==
    \E j \in 1..MaxJobs : jobs[j].pc = "completed" /\ Len(jobs[j].trace) = 4

\* C4: the first failing step of a notification call ends it: no render or
\* send follows a failed step, and the call fails rather than returning; a
\* failed admin send leaves exactly one sendMail call, a failed admin render
\* none.
C4_FailFast ==
    \A j \in 1..MaxJobs :
        LET t == jobs[j].trace
            bad == {i \in 1..Len(t) : t[i].status \in {"failed", "rejected"}}
        IN  /\ \A i \in bad : i = Len(t)
            /\ bad # {} => jobs[j].pc = "failed"
            /\ \A i \in bad :
                   /\ t[i].op = "sendMail" /\ t[i].who = "admin" =>
                          Cardinality(SendMails(t)) = 1
                   /\ t[i].op = "render" /\ t[i].who = "admin" =>
                          Cardinality(SendMails(t)) = 0

C4_Witness ==
    \E j, k \in 1..MaxJobs :
        /\ jobs[j].pc = "failed" /\ Len(jobs[j].trace) = 2
        /\ jobs[j].trace[2].status = "rejected"
        /\ jobs[k].pc = "failed" /\ Len(jobs[k].trace) = 1
        /\ jobs[k].trace[1].status = "failed"

\* C5, as stated: every failure inside a notification call reaches the
\* caller as an EmailWorkerError whose message is "Failed to send email: "
\* followed by the message of the underlying cause.
C5_Original ==
    \A j \in 1..MaxJobs :
        CallFailed(j) =>
            /\ jobs[j].error.name = "EmailWorkerError"
            /\ jobs[j].error.message =
                   <<"Failed to send email: ">> \o jobs[j].cause.message

\* C5, amended: the message is "Failed to send email: " followed by the
\* cause's message when the cause is an Error object, and by "Unknown error"
\* when the cause is any other thrown value.
C5_WrappedMessage ==
    \A j \in 1..MaxJobs :
        CallFailed(j) =>
            /\ jobs[j].error.name = "EmailWorkerError"
            /\ jobs[j].cause.name \in {"Error", "EmailWorkerError"} =>
                   jobs[j].error.message =
                       <<"Failed to send email: ">> \o jobs[j].cause.message
            /\ jobs[j].cause.name = "value" =>
                   jobs[j].error.message =
                       <<"Failed to send email: ", "Unknown error">>

C5_Witness ==
    \E j, k \in 1..MaxJobs :
        /\ CallFailed(j) /\ jobs[j].cause = SmtpValue
        /\ CallFailed(k) /\ jobs[k].cause.code = "TEMPLATE_ERROR"

C7_OneTransport ==
    /\ created <= 1
    /\ \A j \in 1..MaxJobs :
           \A i \in SendMails(jobs[j].trace) :
               /\ jobs[j].trace[i].via # 0
               /\ jobs[j].trace[i].via = transporter

C7_Witness ==
    /\ created = 1
    /\ \E j, k \in 1..MaxJobs :
           /\ j # k
           /\ jobs[j].pc = "customerSend" /\ jobs[j].data = LicenseJob
           /\ jobs[k].pc = "adminSend" /\ jobs[k].data = CreditJob

---------------------------------------------------------------------------
(* Properties of the template cache.                                       *)

\* The successful loads of the same name before call i, with no clearCache
\* between them and call i.
EarlierLoads(i) ==
    {k \in 1..(i - 1) :
        /\ tplLog[k].op = "load" /\ tplLog[k].ok
        /\ tplLog[k].name = tplLog[i].name
        /\ \A m \in k..i : tplLog[m].op # "clear"}

\* C8: of the successful loads of one name with no clearCache in between,
\* the first reads the file once and compiles once, every later one reads
\* and compiles nothing and obtains the template the first one compiled; a
\* load of another name does its own single read and compile.
C8_LoadOncePerName ==
    \A i \in 1..Len(tplLog) :
        tplLog[i].op = "load" /\ tplLog[i].ok =>
            IF EarlierLoads(i) = {}
            THEN tplLog[i].reads = 1 /\ tplLog[i].compiles = 1
            ELSE /\ tplLog[i].reads = 0 /\ tplLog[i].compiles = 0
                 /\ \A k \in EarlierLoads(i) :
                        tplLog[k].template = tplLog[i].template

C8_Witness ==
    /\ Len(tplLog) = 3
    /\ \A i \in 1..3 : tplLog[i].op = "load" /\ tplLog[i].ok
    /\ tplLog[1].name = tplLog[3].name
    /\ tplLog[2].name # tplLog[1].name
    /\ tplLog[3].reads = 0

\* C9: whenever renderTemplate applies the compiled template, the data map
\* it passes has the keys of the caller's map and timestamp; timestamp holds
\* a time between the start and the end of the call, whatever the caller put
\* there, and every other key holds the caller's value.
C9_TimestampInjected ==
    \A i \in 1..Len(renders) :
        LET c == renders[i]
        IN  c.pc = "settled" /\ c.loaded.ok =>
                /\ Len(c.result.passed) = 1
                /\ DOMAIN c.result.passed[1] = DOMAIN c.data \cup {"timestamp"}
                /\ c.startT <= getTime(c.result.passed[1].timestamp)
                /\ getTime(c.result.passed[1].timestamp) <= c.endT
                /\ \A k \in DOMAIN c.data \ {"timestamp"} :
                       c.result.passed[1][k] = c.data[k]

C9_Witness ==
    \E i \in 1..Len(renders) :
        /\ renders[i].pc = "settled" /\ renders[i].result.ok
        /\ "timestamp" \in DOMAIN renders[i].data
        /\ renders[i].startT < renders[i].endT
        /\ renders[i].result.passed[1].timestamp # renders[i].data.timestamp

\* C10: a failed read or compile in loadTemplate, and a failure while
\* rendering in renderTemplate, is thrown as an EmailWorkerError of code
\* TEMPLATE_ERROR whose message carries the template name and the message of
\* the cause; the failing call has read the file once, and not again.
C10_TemplateErrors ==
    /\ \A i \in 1..Len(tplLog) :
           LET e == tplLog[i]
           IN  e.op = "load" /\ ~e.ok =>
                   /\ e.error.name = "EmailWorkerError"
                   /\ e.error.code = "TEMPLATE_ERROR"
                   /\ Carries(e.error.message, e.name)
                   /\ e.reads = 1
                   /\ e.compiles = 0 => CarriesAll(e.error.message, ReadError.message)
                   /\ e.compiles = 1 => CarriesAll(e.error.message, CompileError.message)
    /\ \A i \in 1..Len(renders) :
           LET c == renders[i]
           IN  c.pc = "settled" /\ ~c.result.ok =>
                   /\ c.result.error.name = "EmailWorkerError"
                   /\ c.result.error.code = "TEMPLATE_ERROR"
                   /\ Carries(c.result.error.message, c.name)
                   /\ tplLog[c.logged].reads <= 1
                   /\ ~c.loaded.ok =>
                          /\ CarriesAll(c.result.error.message, c.loaded.error.message)
                          /\ tplLog[c.logged].reads = 1
                   /\ c.loaded.ok =>
                          CarriesAll(c.result.error.message, RenderError.message)

C10_Witness ==
    /\ \E i \in 1..Len(tplLog) : tplLog[i].op = "load" /\ ~tplLog[i].ok
    /\ \E i \in 1..Len(renders) :
           /\ renders[i].pc = "settled" /\ ~renders[i].result.ok
           /\ renders[i].loaded.ok

---------------------------------------------------------------------------
(* Properties of the catch of processJob.                                  *)

\* What the dispatch of job j failed with: the validation error when no send
\* path was called, the error of the notification call otherwise.
DispatchFailure(j) ==
    IF jobs[j].calls = <<>>
    THEN unknownEmailType(jobs[j].data.emailType)
    ELSE notificationFailure(jobs[j].cause)

ErrorLogsOf(j, by) ==
    {i \in 1..Len(jobs[j].log) :
        jobs[j].log[i].by = by /\ jobs[j].log[i].level = "error"}

---------------------------------------------------------------------------
(* Properties of the Worker Runtime.                                       *)

\* How many processJob invocations of the runtime's consumers are in flight.
ActiveCallbacks ==
    Cardinality({p \in (1..Len(consumers)) \X (1..MaxProduced) :
                    p[2] <= consumers[p[1]].active})

ShutdownsOf(field, id) == {k \in 1..Len(shutdowns) : shutdowns[k][field] = id}

SettledCalls == {k \in 1..Len(shutdowns) : shutdowns[k].pc \in {"resolved", "rejected"}}

ErrorEntries(log) == {i \in 1..Len(log) : log[i].level = "error"}

\* C12: at every moment at most 5 processJob invocations of one Worker
\* Runtime are in flight, whatever the number of jobs waiting in the
\* email_notifications queue.
C12_AtMostFiveInFlight ==
    /\ ActiveCallbacks <= 5
    /\ \A c \in 1..Len(consumers) : consumers[c].queueName = "email_notifications"

\* Five callbacks are in flight while a further job waits.
C12_Witness ==
    /\ ActiveCallbacks = 5
    /\ queue.waiting >= 1

\* C13: shutdown() closes the consumer first and the connection second: the
\* connection's quit is not started until the consumer's close has
\* completed, so no job callback is in flight and no job is accepted once
\* quit has been called on the connection.
C13_ConsumerBeforeConnection ==
    /\ \A c \in 1..Len(consumers) :
           LET r == consumers[c].connection
           IN  r # 0 /\ connections[r].quitCalls > 0 =>
                   /\ consumers[c].state = "closed"
                   /\ consumers[c].active = 0
    /\ \A k \in 1..Len(shutdowns) :
           shutdowns[k].conn # 0 /\ shutdowns[k].seen.worker # 0 =>
               /\ shutdowns[k].target = shutdowns[k].seen.worker
               /\ consumers[shutdowns[k].target].state = "closed"

\* A shutdown waits for quit after the consumer, which had taken a job, was
\* closed, while another job still waits in the queue.
C13_Witness ==
    \E k \in 1..Len(shutdowns) :
        /\ shutdowns[k].pc = "quitting"
        /\ consumers[shutdowns[k].target].closeCalls >= 1
        /\ queue.waiting >= 1
        /\ queue.produced > queue.waiting

\* C14: shutdown() on a partially initialized runtime closes exactly what
\* exists: with neither handle set it completes successfully doing nothing;
\* with only the consumer set it closes the consumer once and touches no
\* connection; with only the connection set it quits the connection once
\* and touches no consumer.
C14_ClosesWhatExists ==
    /\ \A c \in 1..Len(consumers) :
           consumers[c].closeCalls = Cardinality(ShutdownsOf("target", c))
    /\ \A r \in 1..Len(connections) :
           connections[r].quitCalls = Cardinality(ShutdownsOf("conn", r))
    /\ \A k \in 1..Len(shutdowns) :
           LET call == shutdowns[k]
           IN  /\ call.seen.worker = 0 => call.target = 0
               /\ call.seen.worker # 0 => call.target = call.seen.worker
               /\ call.seen = [worker |-> 0, redis |-> 0] =>
                       call.pc = "resolved" /\ call.conn = 0 /\ call.error = NoError
               /\ call.pc = "resolved" /\ call.settledAt = call.calledAt =>
                       call.conn = call.seen.redis

\* One call found neither handle and resolved; after a start() that failed
\* at the consumer, a second call found only the connection and quit it.
C14_Witness ==
    /\ Len(shutdowns) = 2
    /\ shutdowns[1].seen = [worker |-> 0, redis |-> 0] /\ shutdowns[1].pc = "resolved"
    /\ shutdowns[2].seen = [worker |-> 0, redis |-> 1] /\ shutdowns[2].pc = "resolved"
    /\ connections[1].quitCalls = 1 /\ consumers = <<>>

\* C15: any failure while closing the consumer or the connection makes
\* shutdown() log the failure and reject with that same failure; shutdown()
\* never completes successfully when a close step failed.
C15_ShutdownFailureRethrown ==
    \A k \in 1..Len(shutdowns) :
        LET call == shutdowns[k]
        IN  /\ call.cause # NoError => call.pc = "rejected"
            /\ call.pc = "rejected" =>
                /\ call.cause \in {CloseError, QuitError, CloseValue}
                /\ call.error = call.cause
                /\ ErrorEntries(call.log) = {Len(call.log)}
                /\ call.log[Len(call.log)].error =
                       IF call.cause.name = "Error" THEN call.cause.message
                       ELSE <<"Unknown error">>
            /\ call.pc = "resolved" => ErrorEntries(call.log) = {}

\* A shutdown rejected because quit failed after the consumer was closed.
C15_Witness ==
    \E k \in 1..Len(shutdowns) :
        /\ shutdowns[k].pc = "rejected"
        /\ shutdowns[k].error = QuitError
        /\ shutdowns[k].target # 0
        /\ consumers[shutdowns[k].target].state = "closed"

\* C16: shutdown() itself never terminates the process, on its success path
\* or its failure path; process exit happens only in the signal handlers and
\* in the entrypoint.
C16_ShutdownNeverExits ==
    /\ process.pc = "exited" => process.exitBy \in {"signalHandler", "entrypoint"}
    /\ \A k \in SettledCalls : shutdowns[k].via = "direct" => process.pc # "exited"

\* Two direct calls have settled, one resolved and one rejected, and the
\* process runs on.
C16_Witness ==
    /\ process.pc # "exited"
    /\ \E k \in SettledCalls : shutdowns[k].pc = "resolved" /\ shutdowns[k].target # 0
    /\ \E k \in SettledCalls : shutdowns[k].pc = "rejected"

\* C17: after start(), delivery of an interrupt or terminate signal invokes
\* shutdown(), and the process exits only after that shutdown() has settled,
\* with exit code 0 if it succeeded and 1 if it failed; the process never
\* exits with code 0 after a failed close.
C17_SignalExitCode ==
    /\ Len(shutdowns) = process.signals
    /\ \A k \in 1..Len(shutdowns) : shutdowns[k].via \in Signals
    /\ SettledCalls # {} => process.pc = "exited" /\ process.exitBy = "signalHandler"
    /\ process.pc = "exited" /\ process.exitBy = "signalHandler" =>
           /\ Cardinality(SettledCalls) = 1
           /\ \A k \in SettledCalls :
                  /\ shutdowns[k].pc = "resolved" => process.exitCode = 0
                  /\ shutdowns[k].pc = "rejected" => process.exitCode = 1
    /\ process.pc = "exited" /\ process.exitCode = 0 =>
           /\ \A k \in 1..Len(shutdowns) : shutdowns[k].cause = NoError
           /\ consumers[worker].state = "closed"
           /\ connections[redis].state = "closed"

\* A second signal arrived while the first shutdown was in progress, and the
\* process exited with code 1 when a shutdown rejected.
C17_Witness ==
    /\ process.pc = "exited" /\ process.exitBy = "signalHandler"
    /\ process.exitCode = 1
    /\ Len(shutdowns) = 2
    /\ \E k \in SettledCalls : shutdowns[k].pc = "rejected"

\* C18: if start() fails in the entrypoint, the failure is logged and the
\* process exits with code 1; the process does not keep running with a
\* half-started worker.
C18_StartFailureExits ==
    /\ process.starts >= 1 /\ worker = 0 =>
           /\ process.pc = "exited" /\ process.exitBy = "entrypoint"
           /\ process.exitCode = 1
           /\ Len(process.log) = 1
           /\ process.log[1].level = "error"
           /\ process.log[1].error \in {RedisError, WorkerError}
           /\ consumers = <<>> /\ shutdowns = <<>>
    /\ process.pc = "running" => worker # 0 /\ redis # 0 /\ process.log = <<>>
    /\ process.pc = "exited" /\ process.exitBy = "entrypoint" => worker = 0

\* start() failed after the connection had been created, and the process
\* has exited.
C18_Witness ==
    /\ process.pc = "exited" /\ process.exitBy = "entrypoint"
    /\ redis # 0 /\ worker = 0

\* C19: the Worker Runtime holds no connection handle and no consumer handle
\* before start() and again after shutdown() has completed: once shutdown()
\* returns, both handles are unset.
C19_HandlesUnsetAfterShutdown ==
    /\ consumers = <<>> /\ connections = <<>> => worker = 0 /\ redis = 0
    /\ \A k \in 1..Len(shutdowns) :
           /\ shutdowns[k].pc = "resolved"
           /\ shutdowns[k].calledAt >= 1
           /\ shutdowns[k].settledAt = process.starts
           => worker = 0 /\ redis = 0

\* C20: at every moment one Worker Runtime has at most one live connection
\* and at most one live consumer, under any sequence of start() and
\* shutdown() calls: a second start() without an intervening shutdown() does
\* not create a second connection or consumer while the first is open.
C20_AtMostOneLive ==
    /\ Cardinality(Live(consumers)) <= 1
    /\ Cardinality(Live(connections)) <= 1

---------------------------------------------------------------------------
(* The lifecycle of the Worker Runtime, read off its consumer, its         *)
(* shutdown() calls and the process.                                       *)

ShutdownInProgress ==
    \E k \in 1..Len(shutdowns) : shutdowns[k].pc \in {"closingWorker", "quitting"}

Lifecycle ==
    IF process.pc = "exited" THEN "Stopped"
    ELSE IF ShutdownInProgress THEN "ShuttingDown"
    ELSE IF worker = 0 THEN "Stopped"
    ELSE IF consumers[worker].state = "closed" THEN "Stopped"
    ELSE IF consumers[worker].ready THEN "Running"
    ELSE "Starting"

LifecycleSteps ==
    { <<"Stopped", "Starting">>, <<"Starting", "Running">>,
      <<"Running", "ShuttingDown">>, <<"ShuttingDown", "Stopped">> }

\* The Worker Runtime is Running exactly when its consumer has reported
\* readiness, and the observer of that event has logged it.
RunningMeansReady ==
    Lifecycle = "Running" =>
        /\ consumers[worker].ready
        /\ observed("ready") \in consumers[worker].logged

C22_TransportClosedOnShutdown ==
    \A k \in 1..Len(shutdowns) :
        /\ shutdowns[k].pc = "resolved"
        /\ transporter # 0
        /\ observed("completed") \in consumers[shutdowns[k].target].logged
        => /\ shutdowns[k].transport = transporter
           /\ connections[shutdowns[k].conn].state = "closed"

---------------------------------------------------------------------------
(* Retries and logging inside one processJob invocation.                   *)

StepsOf(trace, op, who) ==
    {i \in 1..Len(trace) : trace[i].op = op /\ trace[i].who = who}

\* C23: the application layer performs zero retries of its own: within one
\* processJob invocation the dispatch is invoked at most once, and within one
\* notification call each of the four steps (admin render, admin send,
\* customer render, customer send) is attempted at most once.
C23_NoRetries ==
    \A j \in 1..MaxJobs :
        /\ Len(jobs[j].calls) <= 1
        /\ \A op \in {"render", "sendMail"}, who \in {"admin", "customer"} :
               Cardinality(StepsOf(jobs[j].trace, op, who)) <= 1
        /\ Len(jobs[j].trace) <= 4
        /\ jobs[j].pc = "failed" /\ jobs[j].calls # <<>> =>
               /\ jobs[j].trace = <<>> \/ jobs[j].trace[Len(jobs[j].trace)].status
                                              \in {"failed", "rejected"}
               /\ \A i \in 1..(Len(jobs[j].trace) - 1) :
                      jobs[j].trace[i].status \in {"ok", "sent"}

\* A job failed at its customer send after each of the four steps ran once.
C23_Witness ==
    \E j \in 1..MaxJobs :
        /\ jobs[j].pc = "failed"
        /\ Len(jobs[j].trace) = 4
        /\ jobs[j].trace[4].status = "rejected"

---------------------------------------------------------------------------
(* Further properties of the Worker Runtime.                               *)

\* C24: across any sequence of signal deliveries and direct shutdown() calls
\* on a started worker, including a second signal arriving while the first
\* shutdown is still in progress, the consumer's close and the connection's
\* quit are each invoked at most once.
C24_CloseAndQuitOnce ==
    /\ \A c \in 1..Len(consumers) : consumers[c].closeCalls <= 1
    /\ \A r \in 1..Len(connections) : connections[r].quitCalls <= 1
\* C25 as stated: each start() call registers exactly one handler for the
\* interrupt signal and exactly one handler for the terminate signal,
\* neither more nor fewer.
C25_Original ==
    [][process'.starts # process.starts =>
          \A s \in Signals : handlers'[s] = handlers[s] + 1]_vars

\* C25: each start() call that creates its consumer registers exactly one
\* handler for the interrupt signal and exactly one for the terminate
\* signal; a start() call that throws while creating the connection or the
\* consumer registers none, and nothing else registers a signal handler.
C25_OneHandlerPerStart ==
    /\ [](\A s \in Signals :
             handlers[s] = IF process.starts = 0 THEN 0 ELSE Len(consumers))
    /\ [][/\ process'.starts # process.starts =>
               \A s \in Signals :
                   handlers'[s] = IF worker' # worker THEN handlers[s] + 1
                                  ELSE handlers[s]
          /\ process'.starts = process.starts => handlers' = handlers]_vars

\* Two start() calls have returned and two handlers per signal are
\* registered.
C25_Witness ==
    /\ process.starts = 2
    /\ Len(consumers) = 2
    /\ handlers = [s \in Signals |-> 2]

\* C26: in start(), all six lifecycle observers are registered before the
\* consumer accepts work: no processJob invocation begins and no lifecycle
\* event is emitted between the creation of the consumer and the completion
\* of observer registration.
C26_ObserversBeforeWork ==
    \A c \in 1..Len(consumers) :
        /\ consumers[c].missed = {}
        /\ consumers[c].ready \/ consumers[c].active > 0 \/ consumers[c].logged # {}
               => consumers[c].observers = Observers

\* A consumer has reported readiness and taken a job, and both events were
\* observed.
C26_Witness ==
    \E c \in 1..Len(consumers) :
        /\ consumers[c].active >= 1
        /\ {observed("ready"), observed("active")} \subseteq consumers[c].logged

\* C27: setupEventHandlers on an existing consumer registers exactly six
\* consumer observers, one each for ready, active, completed, failed,
\* stalled and error, and handling any of these events only emits a log
\* entry: it changes neither the runtime's handles nor the outcome of any
\* job.
C27_ObserversOnlyLog ==
    /\ [](\A c \in 1..Len(consumers) :
             /\ consumers[c].observers =
                    {"ready", "active", "completed", "failed", "stalled", "error"}
             /\ Cardinality(consumers[c].observers) = 6
             /\ \A e \in consumers[c].logged : e.by = "observer")
    /\ [][\A c \in 1..Len(consumers) :
              Len(consumers') = Len(consumers)
              /\ consumers'[c].logged # consumers[c].logged =>
                  /\ worker' = worker /\ redis' = redis
                  /\ connections' = connections /\ shutdowns' = shutdowns
                  /\ process' = process /\ handlers' = handlers /\ jobs' = jobs
                  /\ [consumers'[c] EXCEPT !.logged = {}, !.active = 0, !.ready = TRUE]
                       = [consumers[c] EXCEPT !.logged = {}, !.active = 0, !.ready = TRUE]
                  /\ consumers'[c].active # consumers[c].active =>
                         \/ observed("active") \in consumers'[c].logged
                            /\ consumers'[c].active = consumers[c].active + 1
                         \/ consumers'[c].logged \cap
                                {observed("completed"), observed("failed")} # {}
                            /\ consumers'[c].active = consumers[c].active - 1]_vars

\* The observers of all six events have each logged their entry.
C27_Witness ==
    \E c \in 1..Len(consumers) :
        consumers[c].logged = {observed(e) : e \in Observers}
\* The clearCache calls before call i with no successful load of the name of
\* call i between them and call i.
ClearsBefore(i) ==
    {c \in 1..(i - 1) :
        /\ tplLog[c].op = "clear"
        /\ \A m \in (c + 1)..(i - 1) :
               ~(tplLog[m].op = "load" /\ tplLog[m].ok
                 /\ tplLog[m].name = tplLog[i].name)}

\* The successful loads that read the file, among calls lo..hi.
ReadingLoads(lo, hi) ==
    {i \in lo..hi : tplLog[i].op = "load" /\ tplLog[i].ok /\ tplLog[i].reads = 1}

\* C28: clearCache empties the whole cache: after clearCache, the next
\* loadTemplate of every previously cached name reads and compiles the file
\* again exactly once and re-caches it (k cached names, clear, k loads gives
\* k further reads).
C28_ClearForcesReload ==
    /\ tplLog # <<>> /\ tplLog[Len(tplLog)].op = "clear"
           => templateCache = EmptyCache
    /\ \A i \in 1..Len(tplLog) :
           tplLog[i].op = "load" /\ tplLog[i].ok /\ ClearsBefore(i) # {} =>
               /\ tplLog[i].reads = 1 /\ tplLog[i].compiles = 1
               /\ \A k \in 1..(i - 1) : tplLog[k].template # tplLog[i].template
               /\ \A j \in (i + 1)..Len(tplLog) :
                      /\ tplLog[j].op = "load" /\ tplLog[j].name = tplLog[i].name
                      /\ \A m \in i..j : tplLog[m].op # "clear"
                      => /\ tplLog[j].reads = 0 /\ tplLog[j].compiles = 0
                         /\ tplLog[j].template = tplLog[i].template
    /\ \A c \in 1..Len(tplLog) :
           tplLog[c].op = "clear" =>
               LET cached == {tplLog[k].name : k \in ReadingLoads(1, c - 1)}
                   after == {i \in ReadingLoads(c + 1, Len(tplLog)) :
                                \A m \in c..i : m = c \/ tplLog[m].op # "clear"}
               IN  /\ Cardinality(after) <= Cardinality(DirectNames)
                   /\ \A n \in cached :
                          Cardinality({i \in after : tplLog[i].name = n}) <= 1

\* Two names are cached, the cache is cleared, and the two loads that follow
\* read and compile their files again: two further reads.
C28_Witness ==
    /\ Len(tplLog) = 5
    /\ tplLog[3].op = "clear"
    /\ \A i \in {1, 2, 4, 5} :
           tplLog[i].op = "load" /\ tplLog[i].ok /\ tplLog[i].reads = 1
    /\ tplLog[1].name # tplLog[2].name
    /\ tplLog[4].name # tplLog[5].name
    /\ \A n \in DirectNames : cacheHas(templateCache, n)
\* The clearCache calls recorded after renderTemplate call i obtained its
\* template.
ClearsDuring(i) ==
    {c \in (renders[i].logged + 1)..Len(tplLog) : tplLog[c].op = "clear"}

\* C29: clearCache may run concurrently with in-flight renders: a
\* renderTemplate call that has already obtained its compiled template
\* completes its render with that template and returns normally even if
\* clearCache runs between the load and the render; no render fails or uses
\* a missing template because of a concurrent clearCache.
C29_ClearDuringRender ==
    \A i \in 1..Len(renders) :
        /\ renders[i].loaded.ok => renders[i].loaded.template # NoTemplate
        /\ renders[i].pc = "settled" /\ renders[i].loaded.ok =>
               /\ renders[i].result.template = renders[i].loaded.template
               /\ renders[i].result.template = tplLog[renders[i].logged].template
               /\ renders[i].result.passed # <<>>
               /\ \/ renders[i].result.ok
                  \/ renders[i].result.error =
                         renderFailure(renders[i].name, RenderError)

\* A render returned normally with the template it had loaded although
\* clearCache ran in between and the cache no longer holds the template.
C29_Witness ==
    \E i \in 1..Len(renders) :
        /\ renders[i].pc = "settled"
        /\ renders[i].result.ok
        /\ ClearsDuring(i) # {}
        /\ ~cacheHas(templateCache, renders[i].name)
        /\ renders[i].result.template = renders[i].loaded.template
\* C30: when a notification call fails, the error-level log entry for the
\* failure is emitted by the caller (processJob) and not by the Email
\* Dispatcher: the dispatcher emits no error-level log entry of its own on
\* failure.
C30_DispatcherLogsNoError ==
    \A j \in 1..Len(jobs) :
        jobs[j].pc = "failed" /\ jobs[j].calls # <<>> =>
            /\ Cardinality(ErrorLogsOf(j, "processJob")) = 1
            /\ ErrorLogsOf(j, "EmailService") = {}
\* C34: when closing the consumer fails during shutdown(), shutdown()
\* rejects with that failure without ever attempting to close the queue
\* connection: the connection's quit is invoked only after a successful
\* consumer close (or when no consumer exists), so after a failed consumer
\* close the connection is left open.
C34_NoQuitAfterFailedClose ==
    /\ [](/\ \A r \in 1..Len(connections) :
               /\ connections[r].quitCalls = Cardinality(ShutdownsOf("conn", r))
               /\ connections[r].quitCalls = 0 => connections[r].state = "open"
          /\ \A k \in 1..Len(shutdowns) :
               shutdowns[k].conn # 0 =>
                   \/ shutdowns[k].target = 0 /\ shutdowns[k].seen.worker = 0
                   \/ /\ shutdowns[k].target # 0
                      /\ consumers[shutdowns[k].target].state = "closed")
    /\ [][\A k \in 1..Len(shutdowns) :
              shutdowns[k].pc = "closingWorker" /\ shutdowns'[k].pc = "rejected" =>
                  /\ shutdowns'[k].conn = 0
                  /\ shutdowns'[k].error \in {CloseError, CloseValue}
                  /\ connections' = connections]_vars

\* shutdown() was rejected by the failed close of the consumer, and the
\* connection it held has never been asked to quit.
C34_Witness ==
    \E k \in 1..Len(shutdowns) :
        /\ shutdowns[k].pc = "rejected"
        /\ shutdowns[k].error = CloseError
        /\ shutdowns[k].target # 0
        /\ shutdowns[k].seen.redis # 0
        /\ connections[shutdowns[k].seen.redis].quitCalls = 0
        /\ connections[shutdowns[k].seen.redis].state = "open"
\* The successful loads of name n that no clearCache has followed.
StandingLoads(n) ==
    {i \in 1..Len(tplLog) :
        /\ tplLog[i].op = "load" /\ tplLog[i].ok /\ tplLog[i].name = n
        /\ \A m \in i..Len(tplLog) : tplLog[m].op # "clear"}

\* C35: a failed loadTemplate leaves the cache unchanged: the cache only
\* ever contains names whose read and compile both succeeded since the last
\* clearCache, and every later load of a name that failed reads the file
\* again until one load succeeds.
C35_FailedLoadNotCached ==
    /\ [](/\ \A n \in TemplateNames :
               /\ cacheHas(templateCache, n) <=> StandingLoads(n) # {}
               /\ \A i \in StandingLoads(n) : templateCache[n] = tplLog[i].template
          /\ \A i \in 1..Len(tplLog) :
               tplLog[i].op = "load" /\ ~tplLog[i].ok =>
                   /\ tplLog[i].template = NoTemplate
                   /\ \A j \in (i + 1)..Len(tplLog) :
                          /\ tplLog[j].op = "load" /\ tplLog[j].name = tplLog[i].name
                          /\ \A m \in (i + 1)..(j - 1) :
                                 ~(tplLog[m].op = "load" /\ tplLog[m].ok
                                   /\ tplLog[m].name = tplLog[i].name)
                          => tplLog[j].reads = 1)
    /\ [][/\ Len(tplLog') = Len(tplLog) + 1
          /\ tplLog'[Len(tplLog')].op = "load"
          /\ ~tplLog'[Len(tplLog')].ok
          => templateCache' = templateCache /\ generation' = generation]_vars

\* A name failed to be read, then failed to compile, then loaded: each of
\* the three loads read the file, and only the last one cached the name.
C35_Witness ==
    /\ Len(tplLog) = 3
    /\ \A i \in 1..3 : tplLog[i].op = "load" /\ tplLog[i].name = AdminLicenseTemplate
                          /\ tplLog[i].reads = 1
    /\ ~tplLog[1].ok /\ tplLog[1].compiles = 0
    /\ ~tplLog[2].ok /\ tplLog[2].compiles = 1
    /\ tplLog[3].ok
    /\ templateCache[AdminLicenseTemplate] = tplLog[3].template
    /\ ~cacheHas(templateCache, CustomerLicenseTemplate)
\* The templates job j applied in its renders of name n.
TemplatesUsed(j, n) ==
    {jobs[j].trace[i].html.template :
        i \in {k \in 1..Len(jobs[j].trace) :
                  /\ jobs[j].trace[k].op = "render"
                  /\ jobs[j].trace[k].name = n
                  /\ jobs[j].trace[k].html.template # NoTemplate}}

\* C36: when several job callbacks running concurrently request the same
\* uncached template name, the file is still read and compiled exactly
\* once: the cache check, the read, the compile and the cache insert of one
\* loadTemplate call are not interleaved with another loadTemplate call, so
\* no two calls both miss the cache for the same name.
C36_OneCompilePerName ==
    \A n \in TemplateNames :
        /\ generation[n] <= 1
        /\ cacheHas(templateCache, n) <=> generation[n] = 1
        /\ \A j \in 1..Len(jobs) :
               /\ TemplatesUsed(j, n) \subseteq {[name |-> n, gen |-> 1]}
               /\ jobs[j].loaded.ok /\ jobs[j].loaded.template.name = n
                      => jobs[j].loaded.template = templateCache[n]

\* Two callbacks of the same job type are in flight together, each holding
\* the admin template, which was compiled once.
C36_Witness ==
    /\ \A j \in 1..2 :
           /\ jobs[j].pc = "adminRender"
           /\ jobs[j].data = LicenseJob
           /\ jobs[j].loaded.ok
    /\ jobs[1].loaded.template = jobs[2].loaded.template
    /\ generation[AdminLicenseTemplate] = 1
\* C37: if constructing the SMTP transport fails, the notification call
\* fails with an EMAIL_ERROR wrapped as "Failed to send email: <cause>"
\* having performed zero renders and zero sends, the shared transport stays
\* unset, and the next notification call attempts construction again; a
\* transport is stored only after a successful construction.
C37_TransportFailure ==
    /\ [](/\ transporter # 0 <=> created >= 1
          /\ transporter # 0 => transporter = 1 /\ created = 1
          /\ \A j \in 1..Len(jobs) :
               jobs[j].cause = CreateError =>
                   /\ jobs[j].pc = "failed"
                   /\ jobs[j].error =
                          EmailWorkerError("EMAIL_ERROR",
                              <<"Failed to send email: ">> \o CreateError.message)
                   /\ jobs[j].trace = <<>>
                   /\ jobs[j].via = 0)
    /\ [][\A j \in 1..Len(jobs) :
              /\ jobs[j].pc = "queued" /\ jobs'[j].calls # <<>>
              /\ transporter = 0
              => \/ transporter' # 0 /\ created' = created + 1
                 \/ transporter' = 0 /\ jobs'[j].cause = CreateError]_vars

\* The first notification call failed on the construction of the transport
\* and the second one constructed it and went on.
C37_Witness ==
    /\ jobs[1].pc = "failed" /\ jobs[1].cause = CreateError
    /\ jobs[2].via = 1 /\ jobs[2].pc = "customerSend"
    /\ transporter = 1 /\ created = 1
\* The positions of the sendMail calls of job j to `who`.
SendsOf(j, who) ==
    {i \in 1..Len(jobs[j].trace) :
        jobs[j].trace[i].op = "sendMail" /\ jobs[j].trace[i].who = who}

\* C38: concurrently processed jobs are isolated: under any interleaving of
\* the processJob invocations in flight, each job's admin send precedes that
\* job's customer send, each message goes to the recipient and subject
\* derived from its own job's payload, and the failure of one job neither
\* prevents nor fails the sends of any other in-flight job.
C38_JobsIsolated ==
    /\ [](\A j \in 1..Len(jobs) :
             /\ \A i \in SendsOf(j, "customer") :
                    \E a \in SendsOf(j, "admin") :
                        a < i /\ jobs[j].trace[a].status = "sent"
             /\ \A who \in {"admin", "customer"} : \A i \in SendsOf(j, who) :
                    /\ jobs[j].trace[i].to =
                           IF who = "admin" THEN AdminEmail
                           ELSE jobs[j].data.customerEmail
                    /\ jobs[j].trace[i].subject =
                           subjectOf(Plan(dispatch(route(jobs[j].data), jobs[j].data)),
                                     who))
    /\ [][\A j \in 1..Len(jobs) :
              jobs'[j] # jobs[j] =>
                  \A k \in 1..Len(jobs) : k # j => jobs'[k] = jobs[k]]_vars

\* A credit job failed at its admin send while a license job, begun before
\* it, is in flight at its customer send with its own recipient.
C38_Witness ==
    /\ jobs[1].pc = "customerSend" /\ jobs[1].data = LicenseJob
    /\ jobs[2].pc = "failed" /\ jobs[2].data = CreditJob
    /\ jobs[2].cause = SmtpError
    /\ jobs[1].trace[Len(jobs[1].trace)].to = LicenseJob.customerEmail
    /\ jobs[2].trace[Len(jobs[2].trace)].to = AdminEmail
\* C40: setupEventHandlers called while no consumer exists returns without
\* throwing and registers nothing: no consumer observer and no
\* interrupt/terminate signal handler is added.
C40_SetupWithoutConsumer ==
    /\ [](worker = 0 => /\ consumers = <<>>
                        /\ handlers = [s \in Signals |-> 0])
    /\ [][process'.setups # process.setups /\ worker = 0 =>
              /\ process'.setups = process.setups + 1
              /\ handlers' = handlers
              /\ consumers' = consumers
              /\ worker' = 0 /\ redis' = redis
              /\ connections' = connections /\ shutdowns' = shutdowns]_vars

\* setupEventHandlers has returned twice on an object that holds only a
\* connection, and no signal handler is registered.
C40_Witness ==
    /\ process.setups = 2
    /\ worker = 0 /\ redis # 0
    /\ handlers = [s \in Signals |-> 0]
\* The messages of the processJob invocations in `deliveries` that the
\* transport accepted for `who`, as <<invocation, position>> pairs.
SentMessages(deliveries, who) ==
    {m \in deliveries \X (1..4) :
        /\ m[2] <= Len(jobs[m[1]].trace)
        /\ jobs[m[1]].trace[m[2]].op = "sendMail"
        /\ jobs[m[1]].trace[m[2]].who = who
        /\ jobs[m[1]].trace[m[2]].status = "sent"}

\* The invocations that were handed payload p and completed.
CompletedDeliveries(p) ==
    {j \in 1..Len(jobs) : jobs[j].data = p /\ jobs[j].pc = "completed"}

\* C31: job processing keeps no record of already processed payloads: when
\* the queue delivers the same payload k times and every delivery succeeds,
\* 2k messages are sent (k to the admin address and k to the customer), i.e.
\* a redelivered job is sent again rather than deduplicated.
C31_NoDeduplication ==
    /\ \A p \in Payloads :
           LET D == CompletedDeliveries(p)
           IN  /\ Cardinality(SentMessages(D, "admin")) = Cardinality(D)
               /\ Cardinality(SentMessages(D, "customer")) = Cardinality(D)
               /\ \A m \in SentMessages(D, "admin") :
                      jobs[m[1]].trace[m[2]].to = AdminEmail
               /\ \A m \in SentMessages(D, "customer") :
                      jobs[m[1]].trace[m[2]].to = p.customerEmail
    /\ \A j \in 1..Len(jobs) :
           /\ jobs[j].pc = "failed" /\ jobs[j].cause = NoError =>
                  ~isLicensePurchase(jobs[j].data) /\ ~isCreditPurchase(jobs[j].data)
           /\ jobs[j].pc = "completed" => jobs[j].calls # <<>>

\* The same license payload was delivered twice and both deliveries
\* completed: four messages, two to the admin and two to the customer.
C31_Witness ==
    /\ CompletedDeliveries(LicenseJob) = {1, 2}
    /\ Cardinality(SentMessages({1, 2}, "admin")) = 2
    /\ Cardinality(SentMessages({1, 2}, "customer")) = 2
\* Invocation j failed at its customer render or customer send.
FailedAtCustomer(j) ==
    /\ jobs[j].pc = "failed"
    /\ jobs[j].trace # <<>>
    /\ jobs[j].trace[Len(jobs[j].trace)].who = "customer"

\* The attempts made on payload p: the invocations handed it.
Attempts(p) == {j \in 1..Len(jobs) : jobs[j].data = p}

\* C39: a notification call that fails at the customer render or customer
\* send has already sent the admin message and does not undo it; when the
\* queue then retries the job, the admin message is sent again on each
\* attempt, so for a job that succeeds on attempt n after n-1 customer-step
\* failures the admin receives n messages and the customer exactly 1.
C39_AdminResentOnRetry ==
    /\ [](/\ \A j \in 1..Len(jobs) :
               FailedAtCustomer(j) =>
                   /\ Cardinality(SentMessages({j}, "admin")) = 1
                   /\ SentMessages({j}, "customer") = {}
                   /\ jobs[j].error = notificationFailure(jobs[j].cause)
          /\ \A p \in Payloads :
               LET A == Attempts(p)
                   ok == {j \in A : jobs[j].pc = "completed"}
               IN  /\ Cardinality(ok) = 1
                   /\ \A j \in A \ ok : FailedAtCustomer(j)
                   /\ \A j \in A \ ok : \A k \in ok :
                          jobs[j].attemptsMade < jobs[k].attemptsMade
                   => /\ Cardinality(SentMessages(A, "admin")) = Cardinality(A)
                      /\ Cardinality(SentMessages(A, "customer")) = 1)
    /\ [][\A j \in 1..Len(jobs) :
              SentMessages({j}, "admin") # {} =>
                  /\ Len(jobs'[j].trace) >= Len(jobs[j].trace)
                  /\ SubSeq(jobs'[j].trace, 1, Len(jobs[j].trace) - 1)
                         = SubSeq(jobs[j].trace, 1, Len(jobs[j].trace) - 1)]_vars

\* The first attempt on the license payload failed at the customer send
\* and the second attempt completed: two admin messages, one customer
\* message.
C39_Witness ==
    /\ jobs[1].data = LicenseJob /\ jobs[2].data = LicenseJob
    /\ jobs[1].attemptsMade = 0 /\ jobs[2].attemptsMade = 1
    /\ FailedAtCustomer(1) /\ jobs[1].cause = SmtpError
    /\ jobs[2].pc = "completed"
    /\ Cardinality(SentMessages({1, 2}, "admin")) = 2
    /\ Cardinality(SentMessages({1, 2}, "customer")) = 1
\* Invocation j awaited a test double of EmailService.
Stubbed(j) ==
    /\ jobs[j].calls # <<>>
    /\ jobs[j].via = 0 /\ jobs[j].cause = NoError /\ jobs[j].trace = <<>>

\* C33: thrown values that are not Error objects are handled without losing
\* the failure: a notification call whose step rejects with a non-Error
\* value fails with EmailWorkerError message exactly "Failed to send email:
\* Unknown error", and processJob whose dispatch rejects with a non-Error
\* value logs the message "Unknown error" and still rejects with that same
\* value.
C33_NonErrorValues ==
    \A j \in 1..Len(jobs) :
        /\ jobs[j].cause # NoError /\ ~instanceofError(jobs[j].cause) =>
               /\ jobs[j].pc = "failed"
               /\ jobs[j].caught =
                      EmailWorkerError("EMAIL_ERROR",
                          <<"Failed to send email: ", "Unknown error">>)
               /\ jobs[j].error = jobs[j].caught
        /\ jobs[j].caught # NoError /\ ~instanceofError(jobs[j].caught) =>
               /\ jobs[j].pc = "failed"
               /\ jobs[j].error = jobs[j].caught
               /\ jobs[j].log # <<>>
               /\ LET entry == jobs[j].log[Len(jobs[j].log)]
                  IN  /\ entry.by = "processJob" /\ entry.level = "error"
                      /\ entry.error = <<"Unknown error">>
                      /\ entry.attempts = jobs[j].attemptsMade

\* One invocation failed because its sendMail rejected with a string, and
\* another because the stubbed dispatch itself rejected with a string.
C33_Witness ==
    /\ jobs[1].pc = "failed" /\ jobs[1].cause = SmtpValue
    /\ jobs[1].error.message = <<"Failed to send email: ", "Unknown error">>
    /\ jobs[2].pc = "failed" /\ Stubbed(2)
    /\ jobs[2].error = StubValue
\* C32: with stalled interval 30 s and maximum stalled count 1, a job is
\* redelivered after stalling at most once; a job that stalls a second time
\* is marked permanently failed, so no job is processed an unbounded number
\* of times because of stalls and every dequeued job eventually ends
\* completed or failed.
C32_StalledAtMostOnce ==
    /\ [](/\ \A c \in 1..Len(consumers) :
               /\ consumers[c].stalledInterval = 30000
               /\ consumers[c].maxStalledCount = 1
          /\ \A j \in 1..Len(queue.held) :
               LET job == queue.held[j]
               IN  /\ job.runs <= 2 /\ job.stalls <= 2
                   /\ job.runs = 2 => job.stalls >= 1
                   /\ job.stalls = 2 => job.state = "failed" /\ job.by = "stalled"
                   /\ job.by = "stalled" => job.stalls = 2 /\ job.runs = 2
                   /\ job.state = "wait" => job.runs = job.stalls /\ job.stalls <= 1)
    /\ \A j \in 1..(MaxHeld + 1) :
           (j <= Len(queue.held) /\ queue.held[j].runs >= 1)
               ~> (/\ j <= Len(queue.held)
                   /\ queue.held[j].state \in {"completed", "failed"})

\* One job was redelivered after its first stall and then completed, the
\* other stalled twice and was failed.
C32_Witness ==
    /\ Len(queue.held) = 2
    /\ queue.held[1].state = "completed" /\ queue.held[1].runs = 2
    /\ queue.held[1].stalls = 1
    /\ queue.held[2].state = "failed" /\ queue.held[2].by = "stalled"
    /\ \E c \in 1..Len(consumers) : observed("stalled") \in consumers[c].logged

=============================================================================
